---- MODULE Spec2Model ----
(***************************************************************************)
(* Model of the code that nih-dbus-tool generates for D-Bus properties     *)
(* (property.c): the server-side get and set stubs and the client-side     *)
(* synchronous get and set stubs, run against messages and replies of a    *)
(* peer.  One action per statement block of the generated function.        *)
(***************************************************************************)
EXTENDS Integers, Sequences, FiniteSets, TLC

(* ------------------------------ bounds -------------------------------- *)

\* allocation failures that may be injected into one run of a stub
MaxOom == 2
\* integer property values range over -MaxInt..MaxInt
MaxInt == 1
\* arguments after the fixed ones in a message or reply made by the peer
MaxArgs == 2

(* ------------------------------ state --------------------------------- *)

VARIABLES
    pc,            \* position inside the running stub ("idle", ..., "done")
    stub,          \* which generated function is running
    ptype,         \* property->type, the signature the stub was generated for
    value,         \* the stub's local/argument "value" ("local" in the sync getter)
    slot,          \* *value, the caller-supplied output slot of the sync getter
    inArgs,        \* arguments of the message being read (method call or reply)
    iterPos,       \* position of "iter" over inArgs
    varArgs,       \* contents of the variant "variter" recursed into
    varPos,        \* position of "variter"
    outArgs,       \* arguments appended to the message being written
    varOpen,       \* a variant container is open for writing
    varSig,        \* signature it was opened with
    varItems,      \* values appended inside it
    opens,         \* successful dbus_message_iter_open_container calls
    closes,        \* dbus_message_iter_close_container calls
    err,           \* the raised (unhandled) NihError
    ret,           \* the stub's return value
    handlerCalls,  \* number of calls made to the user's handler
    handlerArg,    \* value passed to the user's setter
    handlerRet,    \* what the handler returned
    handlerErr,    \* the error the handler raised
    mcRefs,        \* references held on method_call
    replyRefs,     \* references held on reply
    sent,          \* method calls handed to dbus_connection_send_with_reply_and_block
    replied,       \* the blocking send returned a reply (not an error)
    remoteErr,     \* the DBusError the blocking send returned
    passLog,       \* one entry per pass of the sync getter's do/while body
    oomLeft,       \* allocation failures still to inject
    wire,          \* last message built by generated code, on its way to the peer
    fromWire,      \* the running stub reads the message held in wire
    stack,         \* context->stack of the XML parse, top entry first
    properties,    \* interface->properties of the interface being parsed
    tagRet,        \* what the last tag or annotation handler returned
    tagErr,        \* the error it raised
    warned,        \* it printed a warning
    nameArg,       \* the string property_name_valid is called with
    nameRet,       \* what it returned, once it has
    genProp,       \* the Property the stub generators are called with
    genFn,         \* the generator that is running
    genPc,         \* how far it has got
    func,          \* its local func, the prototype of the stub
    handler_func,  \* its local handler_func, the prototype of the handler
    genRet,        \* what the last generator returned
    prototypes,    \* the caller's prototypes list
    handlers,      \* the caller's handlers list
    heap,          \* the nih_alloc blocks ever allocated, by number
    heapRet,       \* what the last nih_free returned
    heapFault,     \* freed memory has been read and the process has died
    loop_functions,\* the list of NihMainLoopFunc, in list order
    funcCount,     \* the NihMainLoopFunc allocated so far
    exit_loop,     \* "whether to exit the running main loop"
    exit_status,   \* "status to exit the running main loop with"
    loopPc,        \* where nih_main_loop is
    iter,          \* the loop function the iteration has reached, 0 the head
    iterNext,      \* the entry after it, read before its callback is called
    loopLog,       \* what the current iteration has done so far
    loopRet,       \* what the last nih_main_loop returned
    lastExit,      \* the status of the last nih_main_loop_exit call
    jobs,          \* the jobs hash table, a job's place being its id
    subs,          \* the notify subscriptions, <<pid, job>>
    queue,         \* the messages queued on control_io, oldest first
    ctlPc,         \* where the running control handler is
    ctlReq,        \* the message it handles
    ctlFound,      \* the job it found, 0 for NULL
    ctlJob,        \* its local job, 0 for NULL
    ctlIter,       \* the place NIH_HASH_FOREACH (jobs, iter) has reached
    ctlHas,        \* its local has_instance
    objInterfaces, \* the interfaces of the NihDBusObject, in order
    dbusCall,      \* the method call the client has sent
    calledFlags,   \* the foo_called, bar_called, ... that are TRUE
    clientReplies, \* the messages the client has received
    dispPc         \* how far the test has got

readVars    == <<inArgs, iterPos, varArgs, varPos>>
writeVars   == <<outArgs, varOpen, varSig, varItems, opens, closes>>
handlerVars == <<handlerCalls, handlerArg, handlerRet, handlerErr>>
sendVars    == <<sent, replied, remoteErr>>
refVars     == <<mcRefs, replyRefs>>

\* the state of the generated stubs, the allocation failures to inject apart
stubVars == <<pc, stub, ptype, value, slot, err, ret, passLog, wire, fromWire,
              readVars, writeVars, handlerVars, sendVars, refVars>>

parseVars == <<stack, properties, tagRet, tagErr, warned>>

\* the state of the tool itself: it runs before any generated stub does
nameVars == <<nameArg, nameRet>>

genVars == <<genProp, genFn, genPc, func, handler_func, genRet, prototypes,
             handlers>>

heapVars == <<heap, heapRet, heapFault>>

loopVars == <<loop_functions, funcCount, exit_loop, exit_status, loopPc, iter,
              iterNext, loopLog, loopRet, lastExit>>

\* the state of the daemon's library and of the daemon
controlVars == <<jobs, subs, queue, ctlPc, ctlReq, ctlFound, ctlJob, ctlIter,
                 ctlHas>>

objectVars == <<objInterfaces, dbusCall, calledFlags, clientReplies, dispPc>>

restVars == <<loopVars, controlVars, objectVars>>

toolVars == <<parseVars, nameVars, genVars, heapVars, restVars>>

vars == <<pc, stub, ptype, value, slot, inArgs, iterPos, varArgs, varPos,
          outArgs, varOpen, varSig, varItems, opens, closes, err, ret,
          handlerCalls, handlerArg, handlerRet, handlerErr, mcRefs, replyRefs,
          sent, replied, remoteErr, passLog, oomLeft, wire, fromWire,
          stack, properties, tagRet, tagErr, warned, nameArg, nameRet,
          genProp, genFn, genPc, func, handler_func, genRet, prototypes,
          handlers, heap, heapRet, heapFault, restVars>>

(* ------------------------- values and the wire ------------------------ *)

\* property types the stubs are generated for (the peer also sends "d")
PropertyTypes == {"s", "i", "b"}

InterfaceName == "com.netsplit.Nih.Test"
PropertyName  == "my_property"

\* a C value: a string pointer (with its nih_alloc parent), an integer, or NULL
CStr(s, parent) == [k |-> "str", s |-> s, n |-> 0, parent |-> parent]
CInt(n)         == [k |-> "int", s |-> "", n |-> n, parent |-> "none"]
NullV           == [k |-> "null", s |-> "", n |-> 0, parent |-> "none"]
Unset           == [k |-> "unset", s |-> "", n |-> 0, parent |-> "none"]

Strings == {"", "wibble"}

CValues(t, parent) ==
    IF t = "s" THEN {CStr(s, parent) : s \in Strings}
    ELSE IF t = "b" THEN {CInt(0), CInt(1)}
    ELSE {CInt(n) : n \in -MaxInt..MaxInt}

\* C truth value of "! x"
IsZero(v) == v.k = "null" \/ (v.k = "int" /\ v.n = 0)

\* one argument on the wire: its type code and, by type, the string, the
\* bytes of the fixed-size value, or the variant's signature and content
WArg(t, s, b) == [type |-> t, sig |-> "", s |-> s, b |-> b, items |-> <<>>]
WStr(s)       == WArg("s", s, <<>>)
WVariant(sig, items) ==
    [type |-> "v", sig |-> sig, s |-> "", b |-> <<>>, items |-> items]

\* the four bytes of a 32-bit value, little-endian two's complement
Int32Bytes(n) ==
    << n % 256, (n \div 256) % 256, (n \div 65536) % 256,
       (n \div 16777216) % 256 >>

\* the signed 32-bit value held in four bytes
BytesInt32(b) ==
    b[1] + 256 * b[2] + 65536 * b[3]
      + 16777216 * (IF b[4] >= 128 THEN b[4] - 256 ELSE b[4])

\* dbus_message_iter_append_basic: the value as it is laid out in the message
ToWire(t, v) ==
    IF t = "s" THEN WStr(v.s)
    ELSE IF t = "b" THEN WArg("b", "", Int32Bytes(IF v.n = 0 THEN 0 ELSE 1))
    ELSE WArg(t, "", Int32Bytes(v.n))

\* dbus_message_iter_get_basic, and nih_strdup (parent, ...) for a string
FromWire(t, w, parent) ==
    IF t = "s" THEN CStr(w.s, parent) ELSE CInt(BytesInt32(w.b))

\* the demarshalling code allocates for string-like types only
NeedsAlloc(t) == t = "s"

\* dbus_message_iter_get_arg_type
ArgType(args, pos) ==
    IF pos \in 1..Len(args) THEN args[pos].type ELSE "INVALID"

(* ------------------------------ errors -------------------------------- *)

NoError == [kind |-> "none", name |-> "", message |-> "", number |-> ""]

\* nih_error_raise (number, ...)
GenericError(number) ==
    [kind |-> "errno", name |-> "", message |-> "", number |-> number]

\* nih_dbus_error_raise (name, message)
DBusError(name, message) ==
    [kind |-> "dbus", name |-> name, message |-> message,
     number |-> "NIH_DBUS_ERROR"]

NoMemoryError    == GenericError("ENOMEM")
InvalidArgsLocal == GenericError("NIH_DBUS_INVALID_ARGS")
InvalidArgsDBus  ==
    DBusError("org.freedesktop.DBus.Error.InvalidArgs",
              "Invalid arguments to my_property property")

NoMemoryName == "org.freedesktop.DBus.Error.NoMemory"

\* errors the user's handler raises when it fails
HandlerErrors ==
    { DBusError("com.netsplit.Nih.MyProperty.Fail", "Bad value for my_property"),
      GenericError("EBADF"),
      NoMemoryError }

\* errors the blocking send returns instead of a reply
RemoteErrors ==
    [name : {NoMemoryName, "org.freedesktop.DBus.Error.UnknownMethod",
             "com.netsplit.Nih.Failed"},
     message : {"", "Didn't work out"}]

NoRemoteError == [name |-> "", message |-> ""]

(* --------------------------- peer messages ---------------------------- *)

\* the bytes of the double 3.14
DoubleBytes == <<31, 133, 235, 81, 184, 30, 9, 64>>

BasicArgs ==
    {WStr(s) : s \in Strings}
    \cup {WArg("i", "", Int32Bytes(n)) : n \in -MaxInt..MaxInt}
    \cup {WArg("b", "", Int32Bytes(n)) : n \in {0, 1}}
    \cup {WArg("d", "", DoubleBytes)}

PeerArgs == BasicArgs \cup {WVariant(a.type, <<a>>) : a \in BasicArgs}

\* every argument list of up to MaxArgs arguments the peer may send
PeerArgLists == UNION {[1..k -> PeerArgs] : k \in 0..MaxArgs}

NoWire == [kind |-> "none", args |-> <<>>, value |-> Unset, ptype |-> ""]

(* --------------------------- common pieces ---------------------------- *)

\* outcomes of a call that allocates: TRUE it succeeds, FALSE out of memory
AllocOutcomes == IF oomLeft > 0 THEN {TRUE, FALSE} ELSE {TRUE}

Charge(ok) == oomLeft' = IF ok THEN oomLeft ELSE oomLeft - 1

\* no generated stub has been called yet
StubsIdle ==
    /\ pc = "idle"
    /\ stub = "none"
    /\ ptype = "s"
    /\ value = Unset
    /\ slot = Unset
    /\ inArgs = <<>>
    /\ iterPos = 1
    /\ varArgs = <<>>
    /\ varPos = 1
    /\ outArgs = <<>>
    /\ varOpen = FALSE
    /\ varSig = ""
    /\ varItems = <<>>
    /\ opens = 0
    /\ closes = 0
    /\ err = NoError
    /\ ret = 0
    /\ handlerCalls = 0
    /\ handlerArg = Unset
    /\ handlerRet = 0
    /\ handlerErr = NoError
    /\ mcRefs = 0
    /\ replyRefs = 0
    /\ sent = <<>>
    /\ replied = FALSE
    /\ remoteErr = NoRemoteError
    /\ passLog = <<>>
    /\ oomLeft = MaxOom
    /\ wire = NoWire
    /\ fromWire = FALSE

\* the description has been parsed and its stack unwound
ParserIdle ==
    /\ stack = <<>>
    /\ properties = <<>>
    /\ tagRet = 0
    /\ tagErr = NoError
    /\ warned = FALSE

\* property_name_valid has not been called
NameIdle ==
    /\ nameArg = <<>>
    /\ nameRet = <<>>

\* no generator has been called, the caller's lists are empty
GenIdle ==
    /\ genProp = [deprecated |-> FALSE]
    /\ genFn = "none"
    /\ genPc = "idle"
    /\ func = <<>>
    /\ handler_func = <<>>
    /\ genRet = "none"
    /\ prototypes = <<>>
    /\ handlers = <<>>

\* nothing has been allocated
HeapIdle ==
    /\ heap = <<>>
    /\ heapRet = 0
    /\ heapFault = FALSE

\* nih_main_loop is not running and no loop function is registered
LoopIdle ==
    /\ loop_functions = <<>>
    /\ funcCount = 0
    /\ exit_loop = FALSE
    /\ exit_status = 0
    /\ loopPc = "out"
    /\ iter = 0
    /\ iterNext = 0
    /\ loopLog = <<>>
    /\ loopRet = <<>>
    /\ lastExit = <<>>

\* no message travels and control_io is idle
NoRequest == [kind |-> "none", pid |-> 0, name |-> "", id |-> 0]

\* no job is known and no control message is being handled
ControlIdle ==
    /\ jobs = <<>>
    /\ subs = {}
    /\ queue = <<>>
    /\ ctlPc = "idle"
    /\ ctlReq = NoRequest
    /\ ctlFound = 0
    /\ ctlJob = 0
    /\ ctlIter = 0
    /\ ctlHas = FALSE

\* no method call has been sent
NoCall == [kind |-> "none", interface |-> "", member |-> "", serial |-> 0]

\* no object is registered on the connection
ObjectIdle ==
    /\ objInterfaces = <<>>
    /\ dbusCall = NoCall
    /\ calledFlags = {}
    /\ clientReplies = <<>>
    /\ dispPc = "start"

RestIdle == LoopIdle /\ ControlIdle /\ ObjectIdle

Init == StubsIdle /\ ParserIdle /\ NameIdle /\ GenIdle /\ HeapIdle /\ RestIdle

(* ------------------- server side: property get stub ------------------- *)

\* the dispatcher calls <Property>_get (object, message, iter)
CallObjectGet(t) ==
    /\ pc = "idle"
    /\ wire.kind = "none"
    /\ pc' = "og_handler"
    /\ stub' = "object_get"
    /\ ptype' = t
    /\ UNCHANGED <<value, slot, err, ret, passLog, oomLeft, wire, fromWire,
                   readVars, writeVars, handlerVars, sendVars, refVars>>
    /\ UNCHANGED toolVars

\* mutant: the sign of the handler's result is tested the wrong way round
HandlerFailed_Positive(r) == r > 0

\* "if (handler (...) < 0)"
HandlerFailed(r) == r < 0

\* if (my_property_get (object->data, message, &value) < 0) return -1;
ObjectGetHandler ==
    /\ pc = "og_handler"
    /\ handlerCalls' = handlerCalls + 1
    /\ handlerArg' = handlerArg
    /\ \/ \E v \in CValues(ptype, "message") :
             /\ handlerRet' = 0
             /\ handlerErr' = NoError
             /\ value' = v
             /\ err' = err
       \/ \E e \in HandlerErrors :
             /\ handlerRet' = -1
             /\ handlerErr' = e
             /\ value' = value
             /\ err' = e
    /\ IF HandlerFailed(handlerRet')
          THEN ret' = -1 /\ pc' = "done"
          ELSE ret' = ret /\ pc' = "og_open"
    /\ UNCHANGED <<stub, ptype, slot, passLog, oomLeft, wire, fromWire,
                   readVars, writeVars, sendVars, refVars>>
    /\ UNCHANGED toolVars

\* mutant: the variant is opened with a fixed "s" signature instead of
\* property->type
ObjectGetOpen_StringSig ==
    /\ pc = "og_open"
    /\ \E ok \in AllocOutcomes :
          /\ Charge(ok)
          /\ IF ok
                THEN /\ opens' = opens + 1
                     /\ varOpen' = TRUE
                     /\ varSig' = "s"
                     /\ varItems' = <<>>
                     /\ ret' = ret
                     /\ pc' = "og_marshal"
                ELSE /\ UNCHANGED <<opens, varOpen, varSig, varItems>>
                     /\ ret' = -1
                     /\ pc' = "done"
    /\ UNCHANGED <<stub, ptype, value, slot, err, passLog, wire, fromWire,
                   outArgs, closes, readVars, handlerVars, sendVars, refVars>>
    /\ UNCHANGED toolVars

\* if (! dbus_message_iter_open_container (iter, DBUS_TYPE_VARIANT, "<type>",
\*                                         &variter)) return -1;
ObjectGetOpen ==
    /\ pc = "og_open"
    /\ \E ok \in AllocOutcomes :
          /\ Charge(ok)
          /\ IF ok
                THEN /\ opens' = opens + 1
                     /\ varOpen' = TRUE
                     /\ varSig' = ptype
                     /\ varItems' = <<>>
                     /\ ret' = ret
                     /\ pc' = "og_marshal"
                ELSE /\ UNCHANGED <<opens, varOpen, varSig, varItems>>
                     /\ ret' = -1
                     /\ pc' = "done"
    /\ UNCHANGED <<stub, ptype, value, slot, err, passLog, wire, fromWire,
                   outArgs, closes, readVars, handlerVars, sendVars, refVars>>
    /\ UNCHANGED toolVars

\* mutant: the out-of-memory code returns without closing the variant
ObjectGetOomCode_NoClose ==
    /\ UNCHANGED <<closes, varOpen>>
    /\ ret' = -1
    /\ pc' = "done"

\* oom_error_code of the get stub:
\*   dbus_message_iter_close_container (iter, &variter); return -1;
ObjectGetOomCode ==
    /\ closes' = closes + 1
    /\ varOpen' = FALSE
    /\ ret' = -1
    /\ pc' = "done"

\* marshal (): if (! dbus_message_iter_append_basic (&variter, <TYPE>, &value))
\*                     { oom_error_code }
ObjectGetMarshal ==
    /\ pc = "og_marshal"
    /\ \E ok \in AllocOutcomes :
          /\ Charge(ok)
          /\ IF ok
                THEN /\ varItems' = Append(varItems, ToWire(ptype, value))
                     /\ UNCHANGED <<closes, varOpen, ret>>
                     /\ pc' = "og_close"
                ELSE /\ varItems' = varItems
                     /\ ObjectGetOomCode
    /\ UNCHANGED <<stub, ptype, value, slot, err, passLog, wire, fromWire,
                   outArgs, varSig, opens, readVars, handlerVars, sendVars,
                   refVars>>
    /\ UNCHANGED toolVars

\* if (! dbus_message_iter_close_container (iter, &variter)) return -1;
\* return 0;
ObjectGetClose ==
    /\ pc = "og_close"
    /\ closes' = closes + 1
    /\ varOpen' = FALSE
    /\ \E ok \in AllocOutcomes :
          /\ Charge(ok)
          /\ IF ok
                THEN /\ outArgs' = Append(outArgs, WVariant(varSig, varItems))
                     /\ ret' = 0
                ELSE /\ outArgs' = outArgs
                     /\ ret' = -1
    /\ pc' = "done"
    /\ UNCHANGED <<stub, ptype, value, slot, err, passLog, wire, fromWire,
                   varSig, varItems, opens, readVars, handlerVars, sendVars,
                   refVars>>
    /\ UNCHANGED toolVars

(* ------------------- server side: property set stub ------------------- *)

\* the dispatcher has stepped iter past the interface and property names and
\* calls <Property>_set (object, message, iter); the message is one the peer
\* made up, or the one a client stub built
CallObjectSet(t) ==
    /\ pc = "idle"
    /\ pc' = "os_variant"
    /\ stub' = "object_set"
    /\ ptype' = t
    /\ \/ /\ wire.kind = "none"
          /\ \E rest \in PeerArgLists :
                inArgs' = <<WStr(InterfaceName), WStr(PropertyName)>> \o rest
          /\ fromWire' = FALSE
       \/ /\ wire.kind = "call"
          /\ inArgs' = wire.args
          /\ fromWire' = TRUE
    /\ iterPos' = 3
    /\ UNCHANGED <<value, slot, err, ret, passLog, oomLeft, wire, varArgs,
                   varPos, writeVars, handlerVars, sendVars, refVars>>
    /\ UNCHANGED toolVars

\* type_error_code of the set stub:
\*   nih_dbus_error_raise_printf (DBUS_ERROR_INVALID_ARGS, ...); return -1;
ObjectSetTypeErrorCode ==
    /\ err' = InvalidArgsDBus
    /\ ret' = -1
    /\ pc' = "done"

\* oom_error_code of the set stub: nih_error_raise_no_memory (); return -1;
ObjectSetOomCode ==
    /\ err' = NoMemoryError
    /\ ret' = -1
    /\ pc' = "done"

\* if (dbus_message_iter_get_arg_type (iter) != DBUS_TYPE_VARIANT) { error }
\* dbus_message_iter_recurse (iter, &variter);
ObjectSetRecurse ==
    /\ pc = "os_variant"
    /\ IF ArgType(inArgs, iterPos) # "v"
          THEN /\ ObjectSetTypeErrorCode
               /\ UNCHANGED <<varArgs, varPos>>
          ELSE /\ varArgs' = inArgs[iterPos].items
               /\ varPos' = 1
               /\ pc' = "os_demarshal"
               /\ UNCHANGED <<err, ret>>
    /\ UNCHANGED <<stub, ptype, value, slot, passLog, oomLeft, wire, fromWire,
                   inArgs, iterPos, writeVars, handlerVars, sendVars, refVars>>
    /\ UNCHANGED toolVars

\* mutant: the string is duplicated before the type of the argument is looked
\* at, so a failed allocation is reported for a mistyped value
ObjectSetDemarshal_AllocFirst ==
    /\ pc = "os_demarshal"
    /\ \E ok \in (IF NeedsAlloc(ptype) THEN AllocOutcomes ELSE {TRUE}) :
          /\ Charge(ok)
          /\ IF ~ok
                THEN /\ ObjectSetOomCode
                     /\ UNCHANGED <<value, varPos>>
                ELSE IF ArgType(varArgs, varPos) # ptype
                        THEN /\ ObjectSetTypeErrorCode
                             /\ UNCHANGED <<value, varPos>>
                        ELSE /\ value' = FromWire(ptype, varArgs[varPos], "message")
                             /\ varPos' = varPos + 1
                             /\ pc' = "os_trailing"
                             /\ UNCHANGED <<err, ret>>
    /\ UNCHANGED <<stub, ptype, slot, passLog, wire, fromWire, inArgs, iterPos,
                   varArgs, writeVars, handlerVars, sendVars, refVars>>
    /\ UNCHANGED toolVars

\* demarshal (): type check, get_basic, nih_strdup (message, ...) for a
\* string, dbus_message_iter_next (&variter)
ObjectSetDemarshal ==
    /\ pc = "os_demarshal"
    /\ IF ArgType(varArgs, varPos) # ptype
          THEN /\ ObjectSetTypeErrorCode
               /\ UNCHANGED <<value, varPos, oomLeft>>
          ELSE \E ok \in (IF NeedsAlloc(ptype) THEN AllocOutcomes ELSE {TRUE}) :
                  /\ Charge(ok)
                  /\ IF ok
                        THEN /\ value' = FromWire(ptype, varArgs[varPos], "message")
                             /\ varPos' = varPos + 1
                             /\ pc' = "os_trailing"
                             /\ UNCHANGED <<err, ret>>
                        ELSE /\ ObjectSetOomCode
                             /\ UNCHANGED <<value, varPos>>
    /\ UNCHANGED <<stub, ptype, slot, passLog, wire, fromWire, inArgs, iterPos,
                   varArgs, writeVars, handlerVars, sendVars, refVars>>
    /\ UNCHANGED toolVars

\* mutant: the check for arguments after the variant is left out
ObjectSetExtraArgument_Never(args, pos) == FALSE

\* the test made after dbus_message_iter_next (iter)
ObjectSetExtraArgument(args, pos) == ArgType(args, pos) # "INVALID"

\* dbus_message_iter_next (iter);
\* if (dbus_message_iter_get_arg_type (iter) != DBUS_TYPE_INVALID) { error }
ObjectSetTrailing ==
    /\ pc = "os_trailing"
    /\ iterPos' = iterPos + 1
    /\ IF ObjectSetExtraArgument(inArgs, iterPos + 1)
          THEN ObjectSetTypeErrorCode
          ELSE pc' = "os_handler" /\ UNCHANGED <<err, ret>>
    /\ UNCHANGED <<stub, ptype, value, slot, passLog, oomLeft, wire, fromWire,
                   inArgs, varArgs, varPos, writeVars, handlerVars, sendVars,
                   refVars>>
    /\ UNCHANGED toolVars

\* if (my_property_set (object->data, message, value) < 0) return -1;
\* return 0;
ObjectSetHandler ==
    /\ pc = "os_handler"
    /\ handlerCalls' = handlerCalls + 1
    /\ handlerArg' = value
    /\ \/ /\ handlerRet' = 0
          /\ handlerErr' = NoError
          /\ err' = err
       \/ \E e \in HandlerErrors :
             /\ handlerRet' = -1
             /\ handlerErr' = e
             /\ err' = e
    /\ ret' = IF HandlerFailed(handlerRet') THEN -1 ELSE 0
    /\ pc' = "done"
    /\ UNCHANGED <<stub, ptype, value, slot, passLog, oomLeft, wire, fromWire,
                   readVars, writeVars, sendVars, refVars>>
    /\ UNCHANGED toolVars

(* ----------------- client side: synchronous get stub ------------------ *)

\* the caller calls <property>_get_sync (parent, proxy, &value)
CallProxyGet(t) ==
    /\ pc = "idle"
    /\ wire.kind \in {"none", "reply"}
    /\ pc' = "pg_new"
    /\ stub' = "proxy_get"
    /\ ptype' = t
    /\ UNCHANGED <<value, slot, err, ret, passLog, oomLeft, wire, fromWire,
                   readVars, writeVars, handlerVars, sendVars, refVars>>
    /\ UNCHANGED toolVars

\* method_call = dbus_message_new_method_call (..., "Get");
\* if (! method_call) nih_return_no_memory_error (-1);
\* dbus_message_iter_init_append (method_call, &iter);
ProxyGetNew ==
    /\ pc = "pg_new"
    /\ \E ok \in AllocOutcomes :
          /\ Charge(ok)
          /\ IF ok
                THEN /\ mcRefs' = 1
                     /\ pc' = "pg_interface"
                     /\ UNCHANGED <<err, ret>>
                ELSE /\ mcRefs' = mcRefs
                     /\ err' = NoMemoryError
                     /\ ret' = -1
                     /\ pc' = "done"
    /\ outArgs' = <<>>
    /\ UNCHANGED <<stub, ptype, value, slot, passLog, wire, fromWire, readVars,
                   varOpen, varSig, varItems, opens, closes, handlerVars,
                   sendVars, replyRefs>>
    /\ UNCHANGED toolVars

\* if (! dbus_message_iter_append_basic (&iter, DBUS_TYPE_STRING, &<str>))
\*         nih_return_no_memory_error (-1);
AppendString(str, next) ==
    /\ \E ok \in AllocOutcomes :
          /\ Charge(ok)
          /\ IF ok
                THEN /\ outArgs' = Append(outArgs, WStr(str))
                     /\ pc' = next
                     /\ UNCHANGED <<err, ret>>
                ELSE /\ outArgs' = outArgs
                     /\ err' = NoMemoryError
                     /\ ret' = -1
                     /\ pc' = "done"
    /\ UNCHANGED <<stub, ptype, value, slot, passLog, wire, fromWire, readVars,
                   varOpen, varSig, varItems, opens, closes, handlerVars,
                   sendVars, refVars>>

\* interface = "<interface>"; append it
ProxyGetAppendInterface ==
    /\ pc = "pg_interface"
    /\ AppendString(InterfaceName, "pg_property")
    /\ UNCHANGED toolVars

\* property = "<property>"; append it
ProxyGetAppendProperty ==
    /\ pc = "pg_property"
    /\ AppendString(PropertyName, "pg_send")
    /\ UNCHANGED toolVars

\* if (dbus_error_has_name (&error, DBUS_ERROR_NO_MEMORY))
\*         nih_error_raise_no_memory ();
\* else    nih_dbus_error_raise (error.name, error.message);
ProxyGetRemoteError(e) ==
    IF e.name = NoMemoryName THEN NoMemoryError
    ELSE DBusError(e.name, e.message)

\* reply = dbus_connection_send_with_reply_and_block (...);
\* if (! reply) { dbus_message_unref (method_call); raise; return -1; }
\* the reply is one the peer made up, or the one a server get stub built
ProxyGetSend ==
    /\ pc = "pg_send"
    /\ sent' = Append(sent, [member |-> "Get", args |-> outArgs])
    /\ \/ /\ \/ /\ wire.kind = "none"
                /\ \E reply \in PeerArgLists : inArgs' = reply
                /\ fromWire' = FALSE
             \/ /\ wire.kind = "reply"
                /\ inArgs' = wire.args
                /\ fromWire' = TRUE
          /\ replied' = TRUE
          /\ replyRefs' = 1
          /\ pc' = "pg_reply"
          /\ UNCHANGED <<remoteErr, mcRefs, err, ret>>
       \/ \E e \in RemoteErrors :
             /\ remoteErr' = e
             /\ replied' = FALSE
             /\ mcRefs' = mcRefs - 1
             /\ err' = ProxyGetRemoteError(e)
             /\ ret' = -1
             /\ pc' = "done"
             /\ UNCHANGED <<inArgs, fromWire, replyRefs>>
    /\ UNCHANGED <<stub, ptype, value, slot, passLog, oomLeft, wire, iterPos,
                   varArgs, varPos, writeVars, handlerVars>>
    /\ UNCHANGED toolVars

\* mutant: the client raises the server's D-Bus error instead of the local one
ProxyGetTypeErrorCode_DBus ==
    /\ replyRefs' = replyRefs - 1
    /\ err' = InvalidArgsDBus
    /\ ret' = -1
    /\ pc' = "done"

\* type_error_code of the sync getter, also used for the reply's shape:
\*   dbus_message_unref (reply);
\*   nih_return_error (-1, NIH_DBUS_INVALID_ARGS, ...);
ProxyGetTypeErrorCode ==
    /\ replyRefs' = replyRefs - 1
    /\ err' = InvalidArgsLocal
    /\ ret' = -1
    /\ pc' = "done"

\* dbus_message_unref (method_call); dbus_message_iter_init (reply, &iter);
\* if (arg_type (&iter) != DBUS_TYPE_VARIANT) { error }
\* dbus_message_iter_recurse (&iter, &variter); dbus_message_iter_next (&iter);
\* if (arg_type (&iter) != DBUS_TYPE_INVALID) { error }
ProxyGetReply ==
    /\ pc = "pg_reply"
    /\ mcRefs' = mcRefs - 1
    /\ IF ArgType(inArgs, 1) # "v"
          THEN /\ ProxyGetTypeErrorCode
               /\ iterPos' = 1
               /\ UNCHANGED <<varArgs, varPos>>
          ELSE /\ varArgs' = inArgs[1].items
               /\ varPos' = 1
               /\ iterPos' = 2
               /\ IF ArgType(inArgs, 2) # "INVALID"
                     THEN ProxyGetTypeErrorCode
                     ELSE pc' = "pg_loop" /\ UNCHANGED <<replyRefs, err, ret>>
    /\ UNCHANGED <<stub, ptype, value, slot, passLog, oomLeft, wire, fromWire,
                   inArgs, writeVars, handlerVars, sendVars>>
    /\ UNCHANGED toolVars

\* mutant: the demarshalled local is not copied to the output slot
ProxyGetStore_Null(local) == NullV

\* "*value = local;"
ProxyGetStore(local) == local

\* "} while (! *value);"
ProxyGetLoopAgain(v) == IsZero(v)

\* oom_error_code of the sync getter: *value = NULL; goto enomem;
ProxyGetOomCode ==
    /\ slot' = NullV
    /\ pc' = IF ProxyGetLoopAgain(slot') THEN "pg_loop" ELSE "pg_finish"

\* one pass of the do/while body: demarshal () from variter into local
\* (type check, get_basic, nih_strdup (parent, ...) for a string,
\* dbus_message_iter_next (&variter)), then *value = local and the loop test
ProxyGetPass ==
    /\ pc = "pg_loop"
    /\ IF ArgType(varArgs, varPos) # ptype
          THEN /\ ProxyGetTypeErrorCode
               /\ passLog' = Append(passLog, [start |-> varPos, outcome |-> "type"])
               /\ UNCHANGED <<value, slot, varPos, oomLeft>>
          ELSE \E ok \in (IF NeedsAlloc(ptype) THEN AllocOutcomes ELSE {TRUE}) :
                  /\ Charge(ok)
                  /\ IF ok
                        THEN /\ value' = FromWire(ptype, varArgs[varPos], "parent")
                             /\ varPos' = varPos + 1
                             /\ slot' = ProxyGetStore(value')
                             /\ passLog' = Append(passLog,
                                    [start |-> varPos, outcome |-> "ok"])
                             /\ pc' = IF ProxyGetLoopAgain(slot')
                                         THEN "pg_loop" ELSE "pg_finish"
                        ELSE /\ ProxyGetOomCode
                             /\ passLog' = Append(passLog,
                                    [start |-> varPos, outcome |-> "oom"])
                             /\ UNCHANGED <<value, varPos>>
                  /\ UNCHANGED <<replyRefs, err, ret>>
    /\ UNCHANGED <<stub, ptype, wire, fromWire, inArgs, iterPos, varArgs,
                   writeVars, handlerVars, sendVars, mcRefs>>
    /\ UNCHANGED toolVars

\* dbus_message_unref (reply); return 0;
ProxyGetFinish ==
    /\ pc = "pg_finish"
    /\ replyRefs' = replyRefs - 1
    /\ ret' = 0
    /\ pc' = "done"
    /\ UNCHANGED <<stub, ptype, value, slot, err, passLog, oomLeft, wire,
                   fromWire, readVars, writeVars, handlerVars, sendVars, mcRefs>>
    /\ UNCHANGED toolVars

(* ----------------- client side: synchronous set stub ------------------ *)

\* the caller calls <property>_set_sync (proxy, value)
CallProxySet(t) ==
    /\ pc = "idle"
    /\ wire.kind = "none"
    /\ pc' = "ps_new"
    /\ stub' = "proxy_set"
    /\ ptype' = t
    /\ \E v \in CValues(t, "none") : value' = v
    /\ UNCHANGED <<slot, err, ret, passLog, oomLeft, wire, fromWire,
                   readVars, writeVars, handlerVars, sendVars, refVars>>
    /\ UNCHANGED toolVars

\* method_call = dbus_message_new_method_call (..., "Set");
\* if (! method_call) nih_return_no_memory_error (-1);
ProxySetNew ==
    /\ pc = "ps_new"
    /\ \E ok \in AllocOutcomes :
          /\ Charge(ok)
          /\ IF ok
                THEN /\ mcRefs' = 1
                     /\ pc' = "ps_interface"
                     /\ UNCHANGED <<err, ret>>
                ELSE /\ mcRefs' = mcRefs
                     /\ err' = NoMemoryError
                     /\ ret' = -1
                     /\ pc' = "done"
    /\ outArgs' = <<>>
    /\ UNCHANGED <<stub, ptype, value, slot, passLog, wire, fromWire, readVars,
                   varOpen, varSig, varItems, opens, closes, handlerVars,
                   sendVars, replyRefs>>
    /\ UNCHANGED toolVars

ProxySetAppendInterface ==
    /\ pc = "ps_interface"
    /\ AppendString(InterfaceName, "ps_property")
    /\ UNCHANGED toolVars

ProxySetAppendProperty ==
    /\ pc = "ps_property"
    /\ AppendString(PropertyName, "ps_open")
    /\ UNCHANGED toolVars

\* if (! dbus_message_iter_open_container (&iter, DBUS_TYPE_VARIANT, "<type>",
\*                                         &variter))
\*         nih_return_no_memory_error (-1);
ProxySetOpen ==
    /\ pc = "ps_open"
    /\ \E ok \in AllocOutcomes :
          /\ Charge(ok)
          /\ IF ok
                THEN /\ opens' = opens + 1
                     /\ varOpen' = TRUE
                     /\ varSig' = ptype
                     /\ varItems' = <<>>
                     /\ pc' = "ps_marshal"
                     /\ UNCHANGED <<err, ret>>
                ELSE /\ UNCHANGED <<opens, varOpen, varSig, varItems>>
                     /\ err' = NoMemoryError
                     /\ ret' = -1
                     /\ pc' = "done"
    /\ UNCHANGED <<stub, ptype, value, slot, passLog, wire, fromWire, readVars,
                   outArgs, closes, handlerVars, sendVars, refVars>>
    /\ UNCHANGED toolVars

\* oom_error_code of the sync setter:
\*   dbus_message_iter_close_container (&iter, &variter);
\*   dbus_message_unref (method_call);
\*   nih_return_no_memory_error (-1);
ProxySetOomCode ==
    /\ closes' = closes + 1
    /\ varOpen' = FALSE
    /\ mcRefs' = mcRefs - 1
    /\ err' = NoMemoryError
    /\ ret' = -1
    /\ pc' = "done"

\* marshal (): if (! dbus_message_iter_append_basic (&variter, <TYPE>, &value))
\*                     { oom_error_code }
ProxySetMarshal ==
    /\ pc = "ps_marshal"
    /\ \E ok \in AllocOutcomes :
          /\ Charge(ok)
          /\ IF ok
                THEN /\ varItems' = Append(varItems, ToWire(ptype, value))
                     /\ pc' = "ps_close"
                     /\ UNCHANGED <<closes, varOpen, mcRefs, err, ret>>
                ELSE /\ varItems' = varItems
                     /\ ProxySetOomCode
    /\ UNCHANGED <<stub, ptype, value, slot, passLog, wire, fromWire, readVars,
                   outArgs, varSig, opens, handlerVars, sendVars, replyRefs>>
    /\ UNCHANGED toolVars

\* if (! dbus_message_iter_close_container (&iter, &variter)) {
\*         dbus_message_unref (method_call);
\*         nih_return_no_memory_error (-1); }
ProxySetClose ==
    /\ pc = "ps_close"
    /\ closes' = closes + 1
    /\ varOpen' = FALSE
    /\ \E ok \in AllocOutcomes :
          /\ Charge(ok)
          /\ IF ok
                THEN /\ outArgs' = Append(outArgs, WVariant(varSig, varItems))
                     /\ pc' = "ps_send"
                     /\ UNCHANGED <<mcRefs, err, ret>>
                ELSE /\ outArgs' = outArgs
                     /\ mcRefs' = mcRefs - 1
                     /\ err' = NoMemoryError
                     /\ ret' = -1
                     /\ pc' = "done"
    /\ UNCHANGED <<stub, ptype, value, slot, passLog, wire, fromWire, readVars,
                   varSig, varItems, opens, handlerVars, sendVars, replyRefs>>
    /\ UNCHANGED toolVars

\* mutant: every remote error is raised as a D-Bus error
ProxySetRemoteError_Always(e) == DBusError(e.name, e.message)

\* the sync setter's copy of the error translation
ProxySetRemoteError(e) ==
    IF e.name = NoMemoryName THEN NoMemoryError
    ELSE DBusError(e.name, e.message)

\* reply = dbus_connection_send_with_reply_and_block (...);
\* if (! reply) { dbus_message_unref (method_call); raise; return -1; }
ProxySetSend ==
    /\ pc = "ps_send"
    /\ sent' = Append(sent, [member |-> "Set", args |-> outArgs])
    /\ \/ \E reply \in PeerArgLists :
             /\ inArgs' = reply
             /\ replied' = TRUE
             /\ replyRefs' = 1
             /\ pc' = "ps_reply"
             /\ UNCHANGED <<remoteErr, mcRefs, err, ret>>
       \/ \E e \in RemoteErrors :
             /\ remoteErr' = e
             /\ replied' = FALSE
             /\ mcRefs' = mcRefs - 1
             /\ err' = ProxySetRemoteError(e)
             /\ ret' = -1
             /\ pc' = "done"
             /\ UNCHANGED <<inArgs, replyRefs>>
    /\ UNCHANGED <<stub, ptype, value, slot, passLog, oomLeft, wire, fromWire,
                   iterPos, varArgs, varPos, writeVars, handlerVars>>
    /\ UNCHANGED toolVars

\* mutant: the reply's arguments are not looked at
ProxySetReplyHasArgs_Never(args) == FALSE

\* "if (dbus_message_iter_get_arg_type (&iter) != DBUS_TYPE_INVALID)"
ProxySetReplyHasArgs(args) == ArgType(args, 1) # "INVALID"

\* dbus_message_unref (method_call); dbus_message_iter_init (reply, &iter);
\* if (reply has an argument) { dbus_message_unref (reply);
\*         nih_return_error (-1, NIH_DBUS_INVALID_ARGS, ...); }
\* dbus_message_unref (reply); return 0;
ProxySetReply ==
    /\ pc = "ps_reply"
    /\ mcRefs' = mcRefs - 1
    /\ iterPos' = 1
    /\ replyRefs' = replyRefs - 1
    /\ IF ProxySetReplyHasArgs(inArgs)
          THEN err' = InvalidArgsLocal /\ ret' = -1
          ELSE err' = err /\ ret' = 0
    /\ pc' = "done"
    /\ UNCHANGED <<stub, ptype, value, slot, passLog, oomLeft, wire, fromWire,
                   inArgs, varArgs, varPos, writeVars, handlerVars, sendVars>>
    /\ UNCHANGED toolVars

(* ------------------------------ the peer ------------------------------ *)

\* the stub has returned and what it built travels to the peer: the reply the
\* server get stub filled in goes to a sync getter, the method call the sync
\* setter sent goes to a server set stub, which starts from a fresh frame
Deliver ==
    /\ pc = "done"
    /\ wire.kind = "none"
    /\ \/ /\ stub = "object_get"
          /\ ret = 0
          /\ wire' = [kind |-> "reply", args |-> outArgs, value |-> value,
                      ptype |-> ptype]
       \/ /\ stub = "proxy_set"
          /\ sent # <<>>
          /\ wire' = [kind |-> "call", args |-> sent[1].args, value |-> value,
                      ptype |-> ptype]
    /\ pc' = "idle"
    /\ stub' = "none"
    /\ ptype' = "s"
    /\ value' = Unset
    /\ slot' = Unset
    /\ inArgs' = <<>>
    /\ iterPos' = 1
    /\ varArgs' = <<>>
    /\ varPos' = 1
    /\ outArgs' = <<>>
    /\ varOpen' = FALSE
    /\ varSig' = ""
    /\ varItems' = <<>>
    /\ opens' = 0
    /\ closes' = 0
    /\ err' = NoError
    /\ ret' = 0
    /\ handlerCalls' = 0
    /\ handlerArg' = Unset
    /\ handlerRet' = 0
    /\ handlerErr' = NoError
    /\ mcRefs' = 0
    /\ replyRefs' = 0
    /\ sent' = <<>>
    /\ replied' = FALSE
    /\ remoteErr' = NoRemoteError
    /\ passLog' = <<>>
    /\ oomLeft' = MaxOom
    /\ fromWire' = FALSE
    /\ UNCHANGED toolVars

ObjectNext ==
    \/ \E t \in PropertyTypes : CallObjectGet(t)
    \/ ObjectGetHandler
    \/ ObjectGetOpen
    \/ ObjectGetMarshal
    \/ ObjectGetClose
    \/ \E t \in PropertyTypes : CallObjectSet(t)
    \/ ObjectSetRecurse
    \/ ObjectSetDemarshal
    \/ ObjectSetTrailing
    \/ ObjectSetHandler

ProxyNext ==
    \/ \E t \in PropertyTypes : CallProxyGet(t)
    \/ ProxyGetNew
    \/ ProxyGetAppendInterface
    \/ ProxyGetAppendProperty
    \/ ProxyGetSend
    \/ ProxyGetReply
    \/ ProxyGetPass
    \/ ProxyGetFinish
    \/ \E t \in PropertyTypes : CallProxySet(t)
    \/ ProxySetNew
    \/ ProxySetAppendInterface
    \/ ProxySetAppendProperty
    \/ ProxySetOpen
    \/ ProxySetMarshal
    \/ ProxySetClose
    \/ ProxySetSend
    \/ ProxySetReply

Next == ObjectNext \/ ProxyNext \/ Deliver

Spec == Init /\ [][Next]_vars

(* ---------------- the tool: names, symbols, signatures ---------------- *)

\* A C string is the sequence of the ASCII codes of its characters; a pointer
\* that may be NULL is a sequence of no element (NULL) or one (what it points to).

\* "Name must be ... no more than 255 characters"
NameMax == 255

\* the body of the for loop of property_name_valid at character i: TRUE when
\* it returns FALSE there, FALSE when it goes on to the next character
NameLoop(name, i) ==
    IF name[i] >= 48 /\ name[i] <= 57
       THEN i = 1
       ELSE /\ (name[i] < 65 \/ name[i] > 90)
            /\ (name[i] < 97 \/ name[i] > 122)
            /\ name[i] # 95

\* mutant: the length test is off by one at the upper end
property_name_valid_Short(name) ==
    IF \E i \in 1..Len(name) : NameLoop(name, i) THEN FALSE
    ELSE IF Len(name) < 1 \/ Len(name) >= NameMax THEN FALSE
    ELSE TRUE

\* the loop returns FALSE at the first character its body refuses; the
\* length is tested when it has run through
property_name_valid(name) ==
    IF \E i \in 1..Len(name) : NameLoop(name, i) THEN FALSE
    ELSE IF Len(name) < 1 \/ Len(name) > NameMax THEN FALSE
    ELSE TRUE

\* symbol_valid: a C identifier, [A-Za-z_][A-Za-z0-9_]*
symbol_valid(symbol) ==
    /\ Len(symbol) >= 1
    /\ \A i \in 1..Len(symbol) :
          \/ symbol[i] \in 65..90
          \/ symbol[i] \in 97..122
          \/ symbol[i] = 95
          \/ (i > 1 /\ symbol[i] \in 48..57)

RECURSIVE SymbolLoop(_, _)
\* symbol_from_name from character i on: an upper-case letter that follows a
\* character other than an upper-case letter or an underscore starts a new
\* word, and every letter is made lower-case
SymbolLoop(name, i) ==
    IF i > Len(name) THEN <<>>
    ELSE IF name[i] \in 65..90
            THEN (IF i > 1 /\ name[i - 1] \notin 65..90 /\ name[i - 1] # 95
                     THEN <<95>> ELSE <<>>)
                 \o <<name[i] + 32>> \o SymbolLoop(name, i + 1)
    ELSE <<name[i]>> \o SymbolLoop(name, i + 1)

symbol_from_name(name) == SymbolLoop(name, 1)

\* type codes of the basic types and the variant
BasicCodes == {"y", "b", "n", "q", "i", "u", "x", "t", "d", "s", "o", "g", "v"}

RECURSIVE TypeEnd(_, _)
RECURSIVE StructEnd(_, _, _)
\* a signature is the sequence of its type codes.  The position after the
\* single complete type that starts at sig[pos], or 0 when none starts there
TypeEnd(sig, pos) ==
    IF pos > Len(sig) THEN 0
    ELSE IF sig[pos] \in BasicCodes THEN pos + 1
    ELSE IF sig[pos] = "a" THEN TypeEnd(sig, pos + 1)
    ELSE IF sig[pos] = "(" THEN StructEnd(sig, pos + 1, 0)
    ELSE 0

\* the position after the ")" that closes a struct of which n members have
\* been read and the next starts at sig[pos]; 0 when the struct is malformed
StructEnd(sig, pos, n) ==
    IF pos > Len(sig) THEN 0
    ELSE IF sig[pos] = ")" THEN (IF n = 0 THEN 0 ELSE pos + 1)
    ELSE LET e == TypeEnd(sig, pos)
         IN  IF e = 0 THEN 0 ELSE StructEnd(sig, e, n + 1)

\* dbus_signature_validate_single: exactly one complete type, nothing after it
dbus_signature_validate_single(sig) == TypeEnd(sig, 1) = Len(sig) + 1

(* --------------------- the tool: parsing <property> ------------------- *)

\* what the parse of a description leaves alone
parseRest == <<stubVars, nameVars, genVars, heapVars, restVars>>

\* ignored markers the parse may pile up on the stack
MaxIgnored == 2

\* "aB", "a_b", "1a", "a.b" and the empty string
TagNames == {<<97, 66>>, <<97, 95, 98>>, <<49, 97>>, <<97, 46, 98>>, <<>>}

\* "s", "as", "(is)", "si", "a", "(i" and the empty string
TagTypes ==
    {<<"s">>, <<"a", "s">>, <<"(", "i", "s", ")">>, <<"s", "i">>, <<"a">>,
     <<"(", "i">>, <<>>}

TagAccess == {"read", "write", "readwrite", "sideways", ""}

\* what a <property> tag may carry: each of name, type and access absent or
\* present with a value, and possibly an attribute the tool does not know
TagAttrs ==
    [name   : {<<>>} \cup {<<n>> : n \in TagNames},
     type   : {<<>>} \cup {<<t>> : t \in TagTypes},
     access : {<<>>} \cup {<<a>> : a \in TagAccess},
     other  : BOOLEAN]

\* the tags of a short description: two names with the same derived symbol,
\* a name that is not valid, a type that is not single
FewAttrs ==
    [name   : {<<n>> : n \in {<<97, 66>>, <<97, 95, 98>>, <<49, 97>>}},
     type   : {<<t>> : t \in {<<"s">>, <<"s", "i">>}},
     access : {<<"readwrite">>, <<>>},
     other  : {FALSE}]

\* "true", "false" and "a b"
AnnotationValues ==
    {<<116, 114, 117, 101>>, <<102, 97, 108, 115, 101>>, <<97, 32, 98>>}

AnnotationNames ==
    {"org.freedesktop.DBus.Deprecated", "com.netsplit.Nih.Symbol",
     "com.netsplit.Nih.Unknown"}

\* a Property as property_new fills it in
Property(name, type, access) ==
    [name |-> name, symbol |-> <<>>, type |-> type, access |-> access,
     deprecated |-> FALSE]

\* property_new (parent, name, type, access): three allocations, of which
\* the one numbered failing fails (0: none); NULL when one does
property_new(name, type, access, failing) ==
    IF failing \in 1..3 THEN <<>> ELSE <<Property(name, type, access)>>

\* a ParseStack entry: its type and, for PARSE_PROPERTY, the property
StackEntry(type, data) == [type |-> type, data |-> data]

\* parse_stack_push (parent, stack, type, data): the stack afterwards
parse_stack_push(st, type, data, ok) ==
    IF ok THEN <<StackEntry(type, data)>> \o st ELSE st

\* parse_stack_top (stack)->type
TopType(st) == IF st = <<>> THEN "NULL" ELSE st[1].type

\* interface_lookup_property (interface, symbol): the properties found
interface_lookup_property(props, symbol) ==
    SelectSeq(props, LAMBDA p : p.symbol = <<symbol>>)

\* a handler has raised an error: the parse of the document is abandoned
Parsing == tagRet = 0

\* which allocation of a call fails, of n made in a row (0: none does)
Failing(n) == IF oomLeft > 0 THEN 0..n ELSE {0}

TagReturn(r, e) == tagRet' = r /\ tagErr' = e

\* mutant: the accepted access values are not checked
StartTagCheck_AnyAccess(attr) ==
    IF attr.name = <<>> THEN GenericError("PROPERTY_MISSING_NAME")
    ELSE IF ~property_name_valid(attr.name[1])
            THEN GenericError("PROPERTY_INVALID_NAME")
    ELSE IF attr.type = <<>> THEN GenericError("PROPERTY_MISSING_TYPE")
    ELSE IF ~dbus_signature_validate_single(attr.type[1])
            THEN GenericError("PROPERTY_INVALID_TYPE")
    ELSE IF attr.access = <<>> THEN GenericError("PROPERTY_MISSING_ACCESS")
    ELSE NoError

\* the checks property_start_tag makes on the attributes, in order: the
\* error raised by the first that fails
StartTagCheck(attr) ==
    IF attr.name = <<>> THEN GenericError("PROPERTY_MISSING_NAME")
    ELSE IF ~property_name_valid(attr.name[1])
            THEN GenericError("PROPERTY_INVALID_NAME")
    ELSE IF attr.type = <<>> THEN GenericError("PROPERTY_MISSING_TYPE")
    ELSE IF ~dbus_signature_validate_single(attr.type[1])
            THEN GenericError("PROPERTY_INVALID_TYPE")
    ELSE IF attr.access = <<>> THEN GenericError("PROPERTY_MISSING_ACCESS")
    ELSE IF attr.access[1] \notin {"read", "write", "readwrite"}
            THEN GenericError("PROPERTY_ILLEGAL_ACCESS")
    ELSE NoError

\* <node> opens the document (node_start_tag)
node_start_tag ==
    /\ Parsing
    /\ stack = <<>>
    /\ stack' = parse_stack_push(stack, "PARSE_NODE", <<>>, TRUE)
    /\ TagReturn(0, NoError)
    /\ warned' = FALSE
    /\ UNCHANGED <<properties, oomLeft, parseRest>>

\* <interface> inside the node (interface_start_tag)
interface_start_tag ==
    /\ Parsing
    /\ TopType(stack) = "PARSE_NODE"
    /\ properties = <<>>
    /\ stack' = parse_stack_push(stack, "PARSE_INTERFACE", <<>>, TRUE)
    /\ TagReturn(0, NoError)
    /\ warned' = FALSE
    /\ UNCHANGED <<properties, oomLeft, parseRest>>

\* the end tag of an ignored element: parse_end_tag frees the marker
ignored_end_tag ==
    /\ Parsing
    /\ TopType(stack) = "PARSE_IGNORED"
    /\ stack' = Tail(stack)
    /\ TagReturn(0, NoError)
    /\ warned' = FALSE
    /\ UNCHANGED <<properties, oomLeft, parseRest>>

Ignored(st) == Len(SelectSeq(st, LAMBDA e : e.type = "PARSE_IGNORED"))

\* mutant: only the empty stack is taken for an unexpected place
UnexpectedTag_EmptyOnly(st) == st = <<>>

\* "if ((! parent) || (parent->type != PARSE_INTERFACE))"
UnexpectedTag(st) == TopType(st) # "PARSE_INTERFACE"

\* mutant: the entry stays on the stack when the push is reported as failed
StartTagPush_KeepOnFailure(st, property, failing) ==
    IF property = <<>> THEN st
    ELSE parse_stack_push(st, "PARSE_PROPERTY", property, TRUE)

\* "property = property_new (...); if (! property) ...;
\*  if (! parse_stack_push (NULL, &context->stack, PARSE_PROPERTY, property))
\*  { ...; nih_free (property); return -1; }": the stack afterwards
StartTagPush(st, property, failing) ==
    IF property = <<>> THEN st
    ELSE parse_stack_push(st, "PARSE_PROPERTY", property, failing = 0)

property_start_tag(attr) ==
    /\ Parsing
    /\ IF UnexpectedTag(stack)
          THEN /\ Ignored(stack) < MaxIgnored
               /\ warned' = TRUE
               /\ \E failing \in Failing(1) :
                     /\ Charge(failing = 0)
                     /\ stack' = parse_stack_push(stack, "PARSE_IGNORED", <<>>,
                                                  failing = 0)
                     /\ IF failing = 0 THEN TagReturn(0, NoError)
                                       ELSE TagReturn(-1, NoMemoryError)
          ELSE /\ warned' = attr.other
               /\ IF StartTagCheck(attr) # NoError
                     THEN /\ TagReturn(-1, StartTagCheck(attr))
                          /\ UNCHANGED <<stack, oomLeft>>
                     ELSE \E failing \in Failing(4) :
                             LET property == property_new(attr.name[1],
                                     attr.type[1], attr.access[1], failing)
                             IN  /\ Charge(failing = 0)
                                 /\ stack' = StartTagPush(stack, property, failing)
                                 /\ IF failing = 0
                                       THEN TagReturn(0, NoError)
                                       ELSE TagReturn(-1, NoMemoryError)
    /\ UNCHANGED <<properties, parseRest>>

\* mutant: the lookup for a conflicting symbol is left out
EndTagConflict_Never(props, symbol) == FALSE

\* "conflict = interface_lookup_property (interface, property->symbol);
\*  if (conflict) { ... }"
EndTagConflict(props, symbol) == interface_lookup_property(props, symbol) # <<>>

property_end_tag ==
    /\ Parsing
    /\ TopType(stack) = "PARSE_PROPERTY"
    /\ TopType(Tail(stack)) = "PARSE_INTERFACE"
    /\ LET property == stack[1].data[1]
       IN  \E ok \in (IF property.symbol = <<>> THEN AllocOutcomes ELSE {TRUE}) :
              /\ Charge(ok)
              /\ IF ~ok
                    THEN /\ TagReturn(-1, NoMemoryError)
                         /\ UNCHANGED <<stack, properties>>
                    ELSE LET symbol == IF property.symbol = <<>>
                                          THEN symbol_from_name(property.name)
                                          ELSE property.symbol[1]
                         IN  /\ stack' = Tail(stack)
                             /\ IF EndTagConflict(properties, symbol)
                                   THEN /\ TagReturn(-1,
                                             GenericError("PROPERTY_DUPLICATE_SYMBOL"))
                                        /\ properties' = properties
                                   ELSE /\ properties' = Append(properties,
                                             [property EXCEPT !.symbol = <<symbol>>])
                                        /\ TagReturn(0, NoError)
    /\ warned' = FALSE
    /\ UNCHANGED parseRest

\* "true" and "false", as strcmp compares them
StrTrue  == <<116, 114, 117, 101>>
StrFalse == <<102, 97, 108, 115, 101>>

\* property_annotation (property, name, val): what it returns and raises
\* and the property afterwards, the nih_strdup succeeding (ok) or not
AnnotationResult(property, name, val, ok) ==
    IF name = "org.freedesktop.DBus.Deprecated"
       THEN IF val = StrTrue
               THEN [ret |-> 0, err |-> NoError,
                     property |-> [property EXCEPT !.deprecated = TRUE]]
            ELSE IF val = StrFalse
               THEN [ret |-> 0, err |-> NoError,
                     property |-> [property EXCEPT !.deprecated = FALSE]]
            ELSE [ret |-> -1, err |-> GenericError("PROPERTY_ILLEGAL_DEPRECATED"),
                  property |-> property]
    ELSE IF name = "com.netsplit.Nih.Symbol"
       THEN IF symbol_valid(val)
               THEN IF ok
                       THEN [ret |-> 0, err |-> NoError,
                             property |-> [property EXCEPT !.symbol = <<val>>]]
                       ELSE [ret |-> -1, err |-> NoMemoryError,
                             property |-> [property EXCEPT !.symbol = <<>>]]
               ELSE [ret |-> -1, err |-> GenericError("PROPERTY_INVALID_SYMBOL"),
                     property |-> property]
    ELSE [ret |-> -1, err |-> GenericError("PROPERTY_UNKNOWN_ANNOTATION"),
          property |-> property]

\* the annotation allocates: it is the Symbol annotation with a valid symbol
AnnotationAllocates(name, val) ==
    name = "com.netsplit.Nih.Symbol" /\ symbol_valid(val)

\* an <annotation> tag inside a <property>: the parser hands it to
\* property_annotation with the property on top of the stack
property_annotation(name, val) ==
    /\ Parsing
    /\ TopType(stack) = "PARSE_PROPERTY"
    /\ \E ok \in (IF AnnotationAllocates(name, val) THEN AllocOutcomes
                                                       ELSE {TRUE}) :
          LET r == AnnotationResult(stack[1].data[1], name, val, ok)
          IN  /\ Charge(ok)
              /\ stack' = [stack EXCEPT ![1].data = <<r.property>>]
              /\ TagReturn(r.ret, r.err)
    /\ warned' = FALSE
    /\ UNCHANGED <<properties, parseRest>>

ParseNext ==
    \/ node_start_tag
    \/ interface_start_tag
    \/ ignored_end_tag
    \/ \E attr \in FewAttrs : property_start_tag(attr)
    \/ property_end_tag
    \/ \E name \in AnnotationNames, val \in AnnotationValues :
          property_annotation(name, val)

\* the parse of one description, from its first tag on
ParseSpec == Init /\ [][ParseNext]_vars

\* the stacks property_start_tag may find: empty, a node, an interface inside
\* it, and on top of those a property or an ignored element
TagStacks ==
    LET node      == <<StackEntry("PARSE_NODE", <<>>)>>
        interface == <<StackEntry("PARSE_INTERFACE", <<>>)>> \o node
        property  == <<StackEntry("PARSE_PROPERTY",
                          <<Property(<<97, 66>>, <<"s">>, "read")>>)>>
                     \o interface
        ignored   == <<StackEntry("PARSE_IGNORED", <<>>)>>
    IN  {<<>>, node, interface, property, ignored, ignored \o node,
         ignored \o interface, ignored \o property}

\* the property lists it may find: none yet, or the property "aB" added
TagProperties ==
    {<<>>, <<[Property(<<97, 66>>, <<"s">>, "read")
                EXCEPT !.symbol = <<symbol_from_name(<<97, 66>>)>>]>>}

StartTagInit ==
    /\ StubsIdle /\ NameIdle /\ GenIdle /\ HeapIdle /\ RestIdle
    /\ stack \in TagStacks
    /\ properties \in TagProperties
    /\ tagRet = 0
    /\ tagErr = NoError
    /\ warned = FALSE

StartTagNext == \E attr \in TagAttrs : property_start_tag(attr)

\* one <property> start tag, with any attributes, in any place of a description
StartTagSpec == StartTagInit /\ [][StartTagNext]_vars

(* ------------------- the tool: property_name_valid -------------------- *)

\* longest string of arbitrary characters property_name_valid is tried on
MaxNameLen == 2

\* the characters at and next to the ends of the ranges the function tests:
\* / 0 9 : @ A Z [ _ ` a z { and the period
NameChars == {47, 48, 57, 58, 64, 65, 90, 91, 95, 96, 97, 122, 123, 46}

\* a string of n times the character c
Repeat(c, n) == [i \in 1..n |-> c]

\* the strings the function is tried on: every string of up to MaxNameLen
\* of the characters above, and strings about as long as the longest name
NameInputs ==
    UNION {[1..n -> NameChars] : n \in 0..MaxNameLen}
    \cup {Repeat(c, n) : c \in {97, 95, 48}, n \in (NameMax - 1)..(NameMax + 2)}
    \cup {<<65>> \o Repeat(c, n) : c \in {57, 46}, n \in (NameMax - 2)..NameMax}

NameInit ==
    /\ StubsIdle /\ ParserIdle /\ GenIdle /\ HeapIdle /\ RestIdle
    /\ nameArg \in NameInputs
    /\ nameRet = <<>>

\* valid = property_name_valid (name)
CallNameValid ==
    /\ nameRet = <<>>
    /\ nameRet' = <<property_name_valid(nameArg)>>
    /\ UNCHANGED <<nameArg, oomLeft, stubVars, parseVars, genVars, heapVars,
                   restVars>>

NameNext == CallNameValid

\* one call of property_name_valid on any of the strings
NameSpec == NameInit /\ [][NameNext]_vars

(* ------------------- the tool: the stub generators -------------------- *)

\* functions the caller's prototypes list may grow to
MaxFuncs == 3

Generators == {"object_get", "object_set", "proxy_get_sync", "proxy_set_sync"}

\* the two generators of server-side stubs, which also emit the prototype of
\* the user's handler
ServerGenerators == {"object_get", "object_set"}

\* the name argument each generator is called with
FuncName(fn) ==
    IF fn = "object_get" THEN "MyProperty_get"
    ELSE IF fn = "object_set" THEN "MyProperty_set"
    ELSE IF fn = "proxy_get_sync" THEN "my_property_get_sync"
    ELSE "my_property_set_sync"

\* the handler_name argument of the server-side generators
HandlerName(fn) ==
    IF fn = "object_get" THEN "my_property_get" ELSE "my_property_set"

\* a TypeFunc: its name and its attribs list
TypeFunc(name, attribs) == [name |-> name, attribs |-> attribs]

\* attribs of the func of a server-side stub: type_func_new leaves the list
\* empty and the generator adds nothing to it
ObjectFuncAttribs(deprecated) == <<>>

\* attribs of the handler_func: "warn_unused_result" and nothing else
HandlerFuncAttribs(deprecated) == <<"warn_unused_result">>

\* mutant: the client-side func is never marked deprecated
ProxyFuncAttribs_Plain(deprecated) == <<"warn_unused_result">>

\* attribs of the func of a client-side stub: "warn_unused_result", and
\* "deprecated" "if (property->deprecated)"
ProxyFuncAttribs(deprecated) ==
    <<"warn_unused_result">>
    \o (IF deprecated THEN <<"deprecated">> ELSE <<>>)

\* mutant: the new func is put on the caller's list as soon as it exists
FuncCreated_Listed(list, f) == Append(list, f)

\* "func = type_func_new (NULL, ...)": the new func has no parent and is in
\* no list; the caller's list afterwards
FuncCreated(list, f) == list

\* the caller calls one of the generators with its property
GenCall(fn) ==
    /\ genPc = "idle"
    /\ Len(prototypes) < MaxFuncs
    /\ genFn' = fn
    /\ genPc' = "func"
    /\ genRet' = "none"
    /\ UNCHANGED <<genProp, func, handler_func, prototypes, handlers, oomLeft,
                   stubVars, parseVars, nameVars, heapVars, restVars>>

\* "return NULL": the nih_local func and handler_func are freed with the
\* other locals
GenReturnNull ==
    /\ genRet' = "NULL"
    /\ genPc' = "idle"
    /\ func' = <<>>
    /\ handler_func' = <<>>

\* what a step of a generator leaves alone
GenFrame ==
    UNCHANGED <<genProp, genFn, stubVars, parseVars, nameVars, heapVars,
                restVars>>

\* an allocation of a step fails: the generator returns NULL and the
\* caller's lists are as they were
GenFail == GenReturnNull /\ UNCHANGED <<prototypes, handlers>>

\* func = type_func_new (NULL, "int", name), its attribs and its arguments
GenFunc ==
    /\ genPc = "func"
    /\ \E ok \in AllocOutcomes :
          /\ Charge(ok)
          /\ IF ok
                THEN LET f == TypeFunc(FuncName(genFn),
                                  IF genFn \in ServerGenerators
                                     THEN ObjectFuncAttribs(genProp.deprecated)
                                     ELSE ProxyFuncAttribs(genProp.deprecated))
                     IN  /\ func' = <<f>>
                         /\ prototypes' = FuncCreated(prototypes, f)
                         /\ genPc' = "blocks"
                         /\ UNCHANGED <<handler_func, handlers, genRet>>
                ELSE GenFail
    /\ GenFrame

\* the locals and the blocks of code: oom_error_code, type_error_code,
\* marshal () or demarshal (), call_block
GenBlocks ==
    /\ genPc = "blocks"
    /\ \E ok \in AllocOutcomes :
          /\ Charge(ok)
          /\ IF ok
                THEN /\ genPc' = IF genFn \in ServerGenerators
                                    THEN "handler" ELSE "layout"
                     /\ UNCHANGED <<func, handler_func, prototypes, handlers,
                                    genRet>>
                ELSE GenFail
    /\ GenFrame

\* handler_func = type_func_new (NULL, "int", handler_name), its
\* warn_unused_result attribute and its arguments
GenHandlerFunc ==
    /\ genPc = "handler"
    /\ \E ok \in AllocOutcomes :
          /\ Charge(ok)
          /\ IF ok
                THEN LET h == TypeFunc(HandlerName(genFn),
                                       HandlerFuncAttribs(genProp.deprecated))
                     IN  /\ handler_func' = <<h>>
                         /\ handlers' = FuncCreated(handlers, h)
                         /\ genPc' = "layout"
                         /\ UNCHANGED <<func, prototypes, genRet>>
                ELSE GenFail
    /\ GenFrame

\* vars_block = type_var_layout (...), the body and its indentation
GenLayout ==
    /\ genPc = "layout"
    /\ \E ok \in AllocOutcomes :
          /\ Charge(ok)
          /\ IF ok
                THEN /\ genPc' = "code"
                     /\ UNCHANGED <<func, handler_func, prototypes, handlers,
                                    genRet>>
                ELSE GenFail
    /\ GenFrame

\* code = type_func_to_string (parent, func) and the body appended to it
\* ("nih_free (code); return NULL;" when that fails)
GenCode ==
    /\ genPc = "code"
    /\ \E ok \in AllocOutcomes :
          /\ Charge(ok)
          /\ IF ok
                THEN /\ genPc' = "append"
                     /\ UNCHANGED <<func, handler_func, prototypes, handlers,
                                    genRet>>
                ELSE GenFail
    /\ GenFrame

\* nih_list_add (prototypes, &func->entry); nih_ref (func, code);
\* nih_list_add (handlers, &handler_func->entry); ...; return code;
GenAppend ==
    /\ genPc = "append"
    /\ prototypes' = Append(prototypes, func[1])
    /\ handlers' = IF genFn \in ServerGenerators
                      THEN Append(handlers, handler_func[1]) ELSE handlers
    /\ genRet' = "code"
    /\ genPc' = "idle"
    /\ func' = <<>>
    /\ handler_func' = <<>>
    /\ UNCHANGED <<genProp, genFn, oomLeft, stubVars, parseVars, nameVars,
                   heapVars, restVars>>

GenInit ==
    /\ StubsIdle /\ ParserIdle /\ NameIdle /\ HeapIdle /\ RestIdle
    /\ genProp \in [deprecated : BOOLEAN]
    /\ genFn = "none"
    /\ genPc = "idle"
    /\ func = <<>>
    /\ handler_func = <<>>
    /\ genRet = "none"
    /\ prototypes = <<>>
    /\ handlers = <<>>

GenNext ==
    \/ \E fn \in Generators : GenCall(fn)
    \/ GenFunc
    \/ GenBlocks
    \/ GenHandlerFunc
    \/ GenLayout
    \/ GenCode
    \/ GenAppend

\* the four generators called, in any order, for one property
GenSpec == GenInit /\ [][GenNext]_vars

(* --------------------------- nih_alloc, nih_free ---------------------- *)

\* blocks a run allocates
MaxBlocks == 3

\* what the destructors of the blocks return
DestructorReturns == {1, 2}

\* a destructor pointer: NULL, or a function known by the value it returns
Destructors == {<<>>} \cup {<<r>> : r \in DestructorReturns}

\* a block is known by the order of its allocation; 0 stands for NULL.  The
\* NihAllocCtx in front of it: parent, children (the list, in order) and
\* destructor; and, of what happens to it, whether the caller still holds it
\* unfreed, how often it went back to the allocator and how often its
\* destructor ran.  The context keeps its content after the release, until
\* something else is written there.
NewCtx(parent) ==
    [parent |-> parent, children |-> <<>>, destructor |-> <<>>, live |-> TRUE,
     released |-> 0, destroyed |-> 0]

LiveBlocks == {b \in 1..Len(heap) : heap[b].live}

\* the entry at the end of parent's children is that of a released block
LastChildReleased(parent) ==
    /\ parent # 0
    /\ heap[parent].children # <<>>
    /\ ~heap[heap[parent].children[Len(heap[parent].children)]].live

\* ptr = nih_alloc (parent, size): NULL when the allocator fails, else the
\* new context is initialised and linked to the end of parent's children.
\* The linking writes into the entry that was last in the list: when that is
\* the entry of a released block the behaviour is undefined, the write goes
\* through as if the block were still there or the process dies
nih_alloc(parent) ==
    /\ ~heapFault
    /\ Len(heap) < MaxBlocks
    /\ parent \in {0} \cup LiveBlocks
    /\ \E ok \in AllocOutcomes :
          /\ Charge(ok)
          /\ \/ /\ heap' = IF ~ok THEN heap
                           ELSE IF parent = 0 THEN Append(heap, NewCtx(0))
                           ELSE Append([heap EXCEPT ![parent].children =
                                           Append(@, Len(heap) + 1)],
                                       NewCtx(parent))
                /\ heapFault' = FALSE
             \/ /\ ok
                /\ LastChildReleased(parent)
                /\ heapFault' = TRUE
                /\ heap' = heap
    /\ UNCHANGED <<heapRet, stubVars, parseVars, nameVars, genVars, restVars>>

\* nih_alloc_set_destructor (ptr, destructor)
nih_alloc_set_destructor(ptr, destructor) ==
    /\ ~heapFault
    /\ ptr \in LiveBlocks
    /\ heap' = [heap EXCEPT ![ptr].destructor = destructor]
    /\ UNCHANGED <<heapRet, heapFault, oomLeft, stubVars, parseVars, nameVars,
                   genVars, restVars>>

RECURSIVE FreeBlock(_, _)
RECURSIVE FreeChildren(_, _, _)
\* nih_free (ptr) run on the heap h with every context read as it was last
\* written: the heap afterwards, the value returned, and whether the context
\* of a block already released was read (stale)
FreeBlock(h, ptr) ==
    LET walked == FreeChildren([heap |-> h, ret |-> 0, stale |-> ~h[ptr].live],
                               h[ptr].children, 1)
        ctx    == walked.heap[ptr]
    IN  [heap  |-> [walked.heap EXCEPT
                      ![ptr].destroyed = IF ctx.destructor # <<>> THEN @ + 1 ELSE @,
                      ![ptr].released = @ + 1,
                      ![ptr].live = FALSE],
         ret   |-> IF ctx.destructor # <<>> THEN ctx.destructor[1] ELSE walked.ret,
         stale |-> walked.stale]

\* the while loop over ctx->children, from the i-th entry of the list on
FreeChildren(acc, children, i) ==
    IF i > Len(children) THEN acc
    ELSE LET freed == FreeBlock(acc.heap, children[i])
         IN  FreeChildren([heap  |-> freed.heap,
                           ret   |-> freed.ret,
                           stale |-> acc.stale \/ freed.stale],
                          children, i + 1)

\* nih_free (ptr), the caller passing a block it has not freed yet.  When the
\* walk reads the context of a released block the behaviour is undefined:
\* the old content may still be there and the walk goes on with it, or the
\* process dies
nih_free(ptr) ==
    /\ ~heapFault
    /\ ptr \in LiveBlocks
    /\ LET done == FreeBlock(heap, ptr)
       IN  \/ /\ heap' = done.heap
              /\ heapRet' = done.ret
              /\ heapFault' = FALSE
           \/ /\ done.stale
              /\ heapFault' = TRUE
              /\ UNCHANGED <<heap, heapRet>>
    /\ UNCHANGED <<oomLeft, stubVars, parseVars, nameVars, genVars, restVars>>

HeapInit ==
    StubsIdle /\ ParserIdle /\ NameIdle /\ GenIdle /\ HeapIdle /\ RestIdle

HeapNext ==
    \/ \E parent \in 0..MaxBlocks : nih_alloc(parent)
    \/ \E ptr \in 1..MaxBlocks, destructor \in Destructors :
          nih_alloc_set_destructor(ptr, destructor)
    \/ \E ptr \in 1..MaxBlocks : nih_free(ptr)

\* any calls of nih_alloc, nih_alloc_set_destructor and nih_free, each block
\* passed to nih_free at most once
HeapSpec == HeapInit /\ [][HeapNext]_vars

(* ------------------------------ nih_main_loop ------------------------- *)

\* what is left alone by the main loop
loopRest == <<stubVars, parseVars, nameVars, genVars, heapVars, controlVars,
              objectVars>>

\* loop functions a run registers
MaxLoopFuncs == 2

\* the data pointers the loop functions are registered with
DataPtrs == {"a", "b"}

\* the status values given to nih_main_loop_exit
ExitStatuses == {0, 1, 2}

\* one thing an iteration did: ev is "io" (nih_io_handle_fds), "signal"
\* (nih_signal_poll), "child" (nih_child_poll), "timer" (nih_timer_poll),
\* "func" (func->callback (func->data, func), arg the function), "exit"
\* (nih_main_loop_exit called from what the iteration called last) or "add"
\* (nih_main_loop_add_func (parent, callback, data) called from it and
\* returning the function arg)
Event(ev, arg, data) == [ev |-> ev, arg |-> arg, data |-> data]

\* the place of the function f in the list, 0 when it is not in it
Place(list, f) ==
    IF \E i \in 1..Len(list) : list[i].id = f
       THEN CHOOSE i \in 1..Len(list) : list[i].id = f
       ELSE 0

\* iter->next for the entry of f, 0 standing for the head of the list
NextEntry(list, f) ==
    IF Place(list, f) < Len(list) THEN list[Place(list, f) + 1].id ELSE 0

\* list->next
FirstEntry(list) == IF list = <<>> THEN 0 ELSE list[1].id

\* nih_main_loop_exit (status)
LoopExit(status) ==
    /\ exit_status' = status
    /\ exit_loop' = TRUE
    /\ lastExit' = <<status>>

\* nih_list_add (loop_functions, &func->entry): to the end of the list
AddFunc(list, f) == Append(list, f)

\* nih_main_loop_add_func (parent, callback, data): NULL when nih_new fails
LoopAddFunc(data) ==
    /\ funcCount < MaxLoopFuncs
    /\ \E ok \in AllocOutcomes :
          /\ Charge(ok)
          /\ IF ok
                THEN /\ funcCount' = funcCount + 1
                     /\ loop_functions' =
                           AddFunc(loop_functions,
                                   [id |-> funcCount + 1, data |-> data])
                ELSE UNCHANGED <<funcCount, loop_functions>>

\* nih_free (func): nih_list_destructor takes it out of the list
LoopFreeFunc(f) ==
    /\ Place(loop_functions, f) # 0
    /\ loop_functions' = SelectSeq(loop_functions, LAMBDA e : e.id # f)
    /\ UNCHANGED <<funcCount, oomLeft>>

\* what a callback may do with the main loop: nothing; nih_main_loop_exit;
\* nih_main_loop_add_func; free a loop function, itself when it is one
CallbackOps(self) ==
    {[op |-> "none", arg |-> 0, data |-> ""]}
    \cup {[op |-> "exit", arg |-> st, data |-> ""] : st \in ExitStatuses}
    \cup {[op |-> "add", arg |-> 0, data |-> d] : d \in DataPtrs}
    \cup {[op |-> "free", arg |-> f, data |-> ""] :
             f \in IF self = 0 THEN 1..MaxLoopFuncs ELSE {self}}

\* the callback doing it, and the iteration's log (log, so far) with the
\* call of the callback (called) and what it did
Callback(cb, log, called) ==
    /\ CASE cb.op = "none" ->
               UNCHANGED <<exit_status, exit_loop, lastExit, funcCount,
                           loop_functions, oomLeft>>
         [] cb.op = "exit" ->
               /\ LoopExit(cb.arg)
               /\ UNCHANGED <<funcCount, loop_functions, oomLeft>>
         [] cb.op = "add" ->
               /\ LoopAddFunc(cb.data)
               /\ UNCHANGED <<exit_status, exit_loop, lastExit>>
         [] cb.op = "free" ->
               /\ LoopFreeFunc(cb.arg)
               /\ UNCHANGED <<exit_status, exit_loop, lastExit>>
    /\ loopLog' = log \o called
                  \o (IF cb.op = "exit" THEN <<Event("exit", 0, "")>>
                                        ELSE <<>>)
                  \o (IF cb.op = "add" /\ funcCount' # funcCount
                         THEN <<Event("add", funcCount', cb.data)>>
                         ELSE <<>>)

\* outside the loop: nih_main_loop_exit, "instructs the current (or next)
\* main loop to exit"
nih_main_loop_exit(status) ==
    /\ loopPc = "out"
    /\ LoopExit(status)
    /\ UNCHANGED <<loop_functions, funcCount, loopPc, iter, iterNext,
                   loopLog, loopRet, oomLeft, loopRest>>

\* outside the loop: nih_main_loop_add_func
nih_main_loop_add_func(data) ==
    /\ loopPc = "out"
    /\ LoopAddFunc(data)
    /\ UNCHANGED <<exit_loop, exit_status, loopPc, iter, iterNext, loopLog,
                   loopRet, lastExit, loopRest>>

\* nih_main_loop () is called
nih_main_loop ==
    /\ loopPc = "out"
    /\ loopPc' = "while"
    /\ loopLog' = <<>>
    /\ loopRet' = <<>>
    /\ UNCHANGED <<loop_functions, funcCount, exit_loop, exit_status, iter,
                   iterNext, lastExit, oomLeft, loopRest>>

\* mutant: the flag is returned, not the status
LoopReturn_Flag == IF exit_loop THEN 1 ELSE 0

\* "return exit_status"
LoopReturn == exit_status

\* while (! exit_loop) is left: exit_loop = 0; return exit_status;
LoopLeave ==
    /\ loopPc = "while"
    /\ exit_loop
    /\ exit_loop' = FALSE
    /\ loopRet' = <<LoopReturn>>
    /\ loopPc' = "out"
    /\ loopLog' = <<>>
    /\ UNCHANGED <<loop_functions, funcCount, exit_status, iter, iterNext,
                   lastExit, oomLeft, loopRest>>

\* while (! exit_loop) is entered: select (), and nih_io_handle_fds when
\* it says some descriptor is ready
LoopSelect ==
    /\ loopPc = "while"
    /\ ~exit_loop
    /\ loopPc' = "signal"
    /\ \E ready \in BOOLEAN :
          IF ready
             THEN \E cb \in CallbackOps(0) :
                     Callback(cb, <<>>, <<Event("io", 0, "")>>)
             ELSE /\ loopLog' = <<>>
                  /\ UNCHANGED <<exit_status, exit_loop, lastExit, funcCount,
                                 loop_functions, oomLeft>>
    /\ UNCHANGED <<iter, iterNext, loopRet, loopRest>>

\* a poll of the iteration, at "at", its callbacks doing cb, then on to "to"
LoopPoll(at, ev, to) ==
    /\ loopPc = at
    /\ loopPc' = to
    /\ \E cb \in CallbackOps(0) : Callback(cb, loopLog, <<Event(ev, 0, "")>>)
    /\ UNCHANGED <<iter, iterNext, loopRet, loopRest>>

\* the interrupt pipe is emptied; nih_signal_poll ()
LoopSignalPoll ==
    /\ loopPc = "signal"
    /\ LoopPoll("signal", "signal", "child")

\* nih_child_poll ()
LoopChildPoll ==
    /\ loopPc = "child"
    /\ LoopPoll("child", "child", "timer")

\* mutant: the loop is left before the timers when it has been told to exit
LoopTimerPoll_Leave ==
    IF exit_loop
       THEN /\ loopPc = "timer"
            /\ loopPc' = "while"
            /\ UNCHANGED <<loop_functions, funcCount, exit_loop, exit_status,
                           iter, iterNext, loopLog, loopRet, lastExit,
                           oomLeft, loopRest>>
       ELSE LoopPoll("timer", "timer", "foreach")

\* nih_timer_poll ()
LoopTimerPoll ==
    /\ loopPc = "timer"
    /\ LoopPoll("timer", "timer", "foreach")

\* NIH_LIST_FOREACH_SAFE (loop_functions, iter): the first entry, and the
\* one after it
LoopForeach ==
    /\ loopPc = "foreach"
    /\ loopPc' = "func"
    /\ iter' = FirstEntry(loop_functions)
    /\ iterNext' = NextEntry(loop_functions, FirstEntry(loop_functions))
    /\ UNCHANGED <<loop_functions, funcCount, exit_loop, exit_status, loopLog,
                   loopRet, lastExit, oomLeft, loopRest>>

\* mutant: every function is called with the data of the first one
FuncData_First(list, f) == list[1].data

\* func->data
FuncData(list, f) == list[Place(list, f)].data

\* func->callback (func->data, func), then the entry read before the call
\* and the one after that
LoopCallFunc ==
    /\ loopPc = "func"
    /\ iter # 0
    /\ \E cb \in CallbackOps(iter) :
          Callback(cb, loopLog,
                   <<Event("func", iter, FuncData(loop_functions, iter))>>)
    /\ iter' = iterNext
    /\ iterNext' = NextEntry(loop_functions', iterNext)
    /\ UNCHANGED <<loopPc, loopRet, loopRest>>

\* the end of the list: back to while (! exit_loop)
LoopForeachDone ==
    /\ loopPc = "func"
    /\ iter = 0
    /\ loopPc' = "while"
    /\ UNCHANGED <<loop_functions, funcCount, exit_loop, exit_status, iter,
                   iterNext, loopLog, loopRet, lastExit, oomLeft, loopRest>>

LoopNext ==
    \/ \E status \in ExitStatuses : nih_main_loop_exit(status)
    \/ \E data \in DataPtrs : nih_main_loop_add_func(data)
    \/ nih_main_loop
    \/ LoopLeave
    \/ LoopSelect
    \/ LoopSignalPoll
    \/ LoopChildPoll
    \/ LoopTimerPoll
    \/ LoopForeach
    \/ LoopCallFunc
    \/ LoopForeachDone

\* loop functions registered, nih_main_loop run, and its callbacks adding
\* and freeing loop functions and telling it to exit
LoopSpec == Init /\ [][LoopNext]_vars

(* --------------------------- the control socket ----------------------- *)

\* what is left alone by the control handlers
ctlRest == <<oomLeft, stubVars, parseVars, nameVars, genVars, heapVars,
             loopVars, objectVars>>

\* jobs in the hash table
MaxJobs == 2

\* process slots of a job
PROCESS_LAST == 2

\* times a goal change notifies the subscribers of the job
MaxNotify == 1

\* the processes that talk to the control socket
Pids == {1, 2}

\* the names requests are made with, the last one the name of no job
JobNames == {"a", "b", "c"}

\* a process slot: NULL, or a process that has no pid yet or has one
Slots == {<<>>, <<0>>, <<7>>}

\* the message types that answer a request
ReplyTypes == {"UPSTART_JOB_UNKNOWN", "UPSTART_JOB_INVALID",
               "UPSTART_JOB_UNCHANGED", "UPSTART_JOB"}

\* upstart_message_new (control_io, pid, type, ...): the arguments a type
\* does not have are left 0 or empty
Message(pid, type, id, name, goal, state, process, ppid) ==
    [pid |-> pid, type |-> type, id |-> id, name |-> name, goal |-> goal,
     state |-> state, process |-> process, ppid |-> ppid]

\* a reply that names a job
JobReply(pid, type, id, name) == Message(pid, type, id, name, "", "", 0, 0)

RECURSIVE ProcessMessages(_, _, _)
\* the for loop of control_send_job_status, from slot i on (slot i of the
\* source is slot i + 1 here)
ProcessMessages(pid, job, i) ==
    IF i > PROCESS_LAST THEN <<>>
    ELSE (IF job.process[i] # <<>> /\ job.process[i][1] > 0
             THEN <<Message(pid, "UPSTART_JOB_PROCESS", 0, "", "", "", i - 1,
                            job.process[i][1])>>
             ELSE <<>>)
         \o ProcessMessages(pid, job, i + 1)

\* mutant: the closing message is left out
control_send_job_status_Open(pid, job) ==
    <<Message(pid, "UPSTART_JOB_STATUS", job.id, job.name, job.goal,
              job.state, 0, 0)>>
    \o ProcessMessages(pid, job, 1)

\* control_send_job_status (pid, job): the messages it queues
control_send_job_status(pid, job) ==
    <<Message(pid, "UPSTART_JOB_STATUS", job.id, job.name, job.goal,
              job.state, 0, 0)>>
    \o ProcessMessages(pid, job, 1)
    \o <<Message(pid, "UPSTART_JOB_STATUS_END", job.id, job.name, job.goal,
                 job.state, 0, 0)>>

\* the processes subscribed to the job, or to all jobs
Subscribers(job) == {pid \in Pids : <<pid, job>> \in subs \/ <<pid, 0>> \in subs}

RECURSIVE NotifyAll(_, _)
\* the status of the job sent to each of the processes of the set
NotifyAll(pids, job) ==
    IF pids = {} THEN <<>>
    ELSE LET pid == CHOOSE x \in pids : \A y \in pids : x <= y
         IN  control_send_job_status(pid, job) \o NotifyAll(pids \ {pid}, job)

RECURSIVE Notifications(_, _, _)
\* what a goal change queues: the job's status to its subscribers, n times
Notifications(pids, job, n) ==
    IF n = 0 THEN <<>>
    ELSE NotifyAll(pids, job) \o Notifications(pids, job, n - 1)

\* job_find_by_name (name), job_find_by_id (id): the jobs it may return,
\* 0 for NULL
Found(req) ==
    LET matching == {j \in 1..Len(jobs) :
                        IF req.name # "" THEN jobs[j].name = req.name
                                         ELSE jobs[j].id = req.id}
    IN  IF matching = {} THEN {0} ELSE matching

\* a message is read from the control socket and its handler called
ControlReceive(kind, pid, name, id) ==
    /\ ctlPc = "idle"
    /\ ctlReq = NoRequest
    /\ ctlReq' = [kind |-> kind, pid |-> pid, name |-> name, id |-> id]
    /\ ctlPc' = "find"
    /\ UNCHANGED <<jobs, subs, queue, ctlFound, ctlJob, ctlIter, ctlHas,
                   ctlRest>>

\* mutant: a request to start an instance of a job is accepted
Invalid_InstanceAccepted(kind, job) ==
    job.state = "JOB_DELETED" \/ job.replacement_for # 0

\* the job found cannot be changed: it is deleted, a replacement, or, when
\* it is to be started, an instance
Invalid(kind, job) ==
    \/ job.state = "JOB_DELETED"
    \/ kind = "start" /\ job.instance_of # 0
    \/ job.replacement_for # 0

\* the reply is queued and the handler returns
ControlReturn(reply) ==
    /\ queue' = Append(queue, reply)
    /\ ctlPc' = "done"

\* job = job_find_by_name (name) or job_find_by_id (id), and the replies
\* UPSTART_JOB_UNKNOWN and UPSTART_JOB_INVALID
ControlFind ==
    /\ ctlPc = "find"
    /\ \E job \in Found(ctlReq) :
          /\ ctlFound' = job
          /\ IF job = 0
             THEN /\ ControlReturn(JobReply(ctlReq.pid, "UPSTART_JOB_UNKNOWN",
                                            ctlReq.id, ctlReq.name))
                  /\ UNCHANGED ctlJob
             ELSE IF Invalid(ctlReq.kind, jobs[job])
             THEN /\ ControlReturn(JobReply(ctlReq.pid, "UPSTART_JOB_INVALID",
                                            jobs[job].id, jobs[job].name))
                  /\ UNCHANGED ctlJob
             ELSE /\ ctlJob' = job
                  /\ ctlPc' = IF ctlReq.kind = "start" THEN "instance"
                                                       ELSE "stop"
                  /\ UNCHANGED queue
    /\ UNCHANGED <<jobs, subs, ctlReq, ctlIter, ctlHas, ctlRest>>

\* the job the handler is about to change: the instance the loop over the
\* instances of a master has reached, else its job
Target == IF ctlIter # 0 THEN ctlIter ELSE ctlJob

\* mutant: being at its goal already does not matter
AtGoal_Never(job, goal) == FALSE

\* job->goal == JOB_START, job->goal == JOB_STOP
AtGoal(job, goal) == job.goal = goal

\* control_job_start: job = job_instance (job), a new instance when the job
\* is an instance master; UPSTART_JOB_UNCHANGED if (job->goal == JOB_START)
ControlInstance ==
    /\ ctlPc = "instance"
    /\ IF jobs[ctlJob].instance
          THEN /\ Len(jobs) < MaxJobs
               /\ \E goal \in {"JOB_STOP", "JOB_START"} :
                     jobs' = Append(jobs,
                                [jobs[ctlJob] EXCEPT
                                    !.id = Len(jobs) + 1,
                                    !.goal = goal,
                                    !.instance = FALSE,
                                    !.instance_of = ctlJob])
               /\ ctlJob' = Len(jobs) + 1
          ELSE UNCHANGED <<jobs, ctlJob>>
    /\ IF AtGoal(jobs'[ctlJob'], "JOB_START")
          THEN ControlReturn(JobReply(ctlReq.pid, "UPSTART_JOB_UNCHANGED",
                                      jobs'[ctlJob'].id, jobs'[ctlJob'].name))
          ELSE ctlPc' = "subscribe" /\ UNCHANGED queue
    /\ UNCHANGED <<subs, ctlReq, ctlFound, ctlIter, ctlHas, ctlRest>>

\* control_job_stop: if ((! job->instance) || (job->instance_of != NULL)),
\* and UPSTART_JOB_UNCHANGED if (job->goal == JOB_STOP); else the loop over
\* the instances of the master begins
ControlStop ==
    /\ ctlPc = "stop"
    /\ IF ~jobs[ctlJob].instance \/ jobs[ctlJob].instance_of # 0
          THEN /\ IF AtGoal(jobs[ctlJob], "JOB_STOP")
                     THEN ControlReturn(JobReply(ctlReq.pid,
                                                 "UPSTART_JOB_UNCHANGED",
                                                 jobs[ctlJob].id,
                                                 jobs[ctlJob].name))
                     ELSE ctlPc' = "subscribe" /\ UNCHANGED queue
               /\ UNCHANGED <<ctlIter, ctlHas>>
          ELSE /\ ctlPc' = "foreach"
               /\ ctlIter' = 1
               /\ ctlHas' = FALSE
               /\ UNCHANGED queue
    /\ UNCHANGED <<jobs, subs, ctlReq, ctlFound, ctlJob, ctlRest>>

\* NIH_HASH_FOREACH (jobs, iter): the entries that are no instance of the
\* job are passed over; at the end UPSTART_JOB_UNCHANGED if (! has_instance)
ControlForeach ==
    /\ ctlPc = "foreach"
    /\ IF ctlIter > Len(jobs)
          THEN /\ IF ~ctlHas
                     THEN ControlReturn(JobReply(ctlReq.pid,
                                                 "UPSTART_JOB_UNCHANGED",
                                                 jobs[ctlJob].id,
                                                 jobs[ctlJob].name))
                     ELSE ctlPc' = "done" /\ UNCHANGED queue
               /\ UNCHANGED <<ctlIter, ctlHas>>
          ELSE IF jobs[ctlIter].instance_of # ctlJob
          THEN /\ ctlIter' = ctlIter + 1
               /\ UNCHANGED <<ctlPc, ctlHas, queue>>
          ELSE /\ ctlHas' = TRUE
               /\ ctlPc' = "subscribe"
               /\ UNCHANGED <<ctlIter, queue>>
    /\ UNCHANGED <<jobs, subs, ctlReq, ctlFound, ctlJob, ctlRest>>

\* mutant: the requester is not subscribed to the job
ControlSubscribe_Skip ==
    /\ ctlPc = "subscribe"
    /\ ctlPc' = "reply"
    /\ UNCHANGED <<jobs, subs, queue, ctlReq, ctlFound, ctlJob, ctlIter,
                   ctlHas, ctlRest>>

\* notify_subscribe_job (job, pid, job)
ControlSubscribe ==
    /\ ctlPc = "subscribe"
    /\ subs' = subs \cup {<<ctlReq.pid, Target>>}
    /\ ctlPc' = "reply"
    /\ UNCHANGED <<jobs, queue, ctlReq, ctlFound, ctlJob, ctlIter, ctlHas, ctlRest>>

\* reply = upstart_message_new (control_io, pid, UPSTART_JOB, job->id,
\* job->name); nih_io_send_message (control_io, reply)
ControlReply ==
    /\ ctlPc = "reply"
    /\ queue' = Append(queue, JobReply(ctlReq.pid, "UPSTART_JOB",
                                       jobs[Target].id, jobs[Target].name))
    /\ ctlPc' = "change"
    /\ UNCHANGED <<jobs, subs, ctlReq, ctlFound, ctlJob, ctlIter, ctlHas, ctlRest>>

\* job_change_goal (job, JOB_START or JOB_STOP, NULL): the goal is changed
\* and the subscribers of the job are told; then return 0, or the next
\* instance of the master
ControlChangeGoal ==
    /\ ctlPc = "change"
    /\ jobs' = [jobs EXCEPT ![Target].goal =
                   IF ctlReq.kind = "start" THEN "JOB_START" ELSE "JOB_STOP"]
    /\ \E n \in 0..MaxNotify :
          queue' = queue \o Notifications(Subscribers(Target), jobs'[Target], n)
    /\ IF ctlIter # 0
          THEN ctlPc' = "foreach" /\ ctlIter' = ctlIter + 1
          ELSE ctlPc' = "done" /\ UNCHANGED ctlIter
    /\ UNCHANGED <<subs, ctlReq, ctlFound, ctlJob, ctlHas, ctlRest>>

\* something else in the daemon sends the status of a job to a process
ControlSendStatus(pid, job) ==
    /\ ctlPc = "idle"
    /\ ctlReq = NoRequest
    /\ queue = <<>>
    /\ job \in 1..Len(jobs)
    /\ ctlReq' = [kind |-> "status", pid |-> pid, name |-> "", id |-> job]
    /\ queue' = queue \o control_send_job_status(pid, jobs[job])
    /\ ctlPc' = "done"
    /\ UNCHANGED <<jobs, subs, ctlFound, ctlJob, ctlIter, ctlHas, ctlRest>>

\* the process table of a job in the tables below: its main process runs
\* when its goal is to be started
ProcessTable(goal) ==
    [i \in 1..PROCESS_LAST |->
        IF i = 1 /\ goal = "JOB_START" THEN <<7>> ELSE <<>>]

\* the first job of a table: no instance and no replacement of another
FirstJobs ==
    {[id |-> 1, name |-> "a", goal |-> goal, state |-> state,
      instance |-> instance, instance_of |-> 0, replacement_for |-> 0,
      process |-> ProcessTable(goal)] :
        goal \in {"JOB_STOP", "JOB_START"},
        state \in {"JOB_WAITING", "JOB_DELETED"},
        instance \in BOOLEAN}

\* the jobs after it: jobs of another name, or instances or replacements of
\* the first one, which have its name
OtherJobs(id) ==
    {[id |-> id, name |-> IF of = 0 /\ for = 0 THEN "b" ELSE "a",
      goal |-> goal, state |-> state, instance |-> instance,
      instance_of |-> of, replacement_for |-> for,
      process |-> ProcessTable(goal)] :
        goal \in {"JOB_STOP", "JOB_START"},
        state \in {"JOB_WAITING", "JOB_DELETED"},
        instance \in BOOLEAN, of \in {0, 1}, for \in {0, 1}}

\* the hash tables the daemon may have when a request arrives
JobTables ==
    {t \in UNION {[1..n -> FirstJobs \cup UNION {OtherJobs(i) : i \in 2..n}] :
                     n \in 1..MaxJobs} :
        \A i \in DOMAIN t : t[i].id = i}

ControlInit ==
    /\ StubsIdle /\ ParserIdle /\ NameIdle /\ GenIdle /\ HeapIdle /\ LoopIdle
    /\ ObjectIdle
    /\ jobs \in JobTables
    /\ subs \in {{}, {<<2, 1>>}, {<<1, 0>>}}
    /\ queue = <<>>
    /\ ctlPc = "idle"
    /\ ctlReq = NoRequest
    /\ ctlFound = 0
    /\ ctlJob = 0
    /\ ctlIter = 0
    /\ ctlHas = FALSE

ControlNext ==
    \/ \E kind \in {"start", "stop"}, pid \in Pids :
          \/ \E name \in JobNames : ControlReceive(kind, pid, name, 0)
          \/ \E id \in 1..(MaxJobs + 1) : ControlReceive(kind, pid, "", id)
    \/ ControlFind
    \/ ControlInstance
    \/ ControlStop
    \/ ControlForeach
    \/ ControlSubscribe
    \/ ControlReply
    \/ ControlChangeGoal

\* one UPSTART_JOB_START or UPSTART_JOB_STOP message handled
ControlSpec == ControlInit /\ [][ControlNext]_vars

\* one job, its process slots empty, without pid or with one
StatusInit ==
    /\ StubsIdle /\ ParserIdle /\ NameIdle /\ GenIdle /\ HeapIdle /\ LoopIdle
    /\ ObjectIdle
    /\ \E job \in FirstJobs, name \in {"a", "b"},
          process \in [1..PROCESS_LAST -> Slots] :
          jobs = <<[job EXCEPT !.name = name, !.process = process]>>
    /\ subs = {}
    /\ queue = <<>>
    /\ ctlPc = "idle"
    /\ ctlReq = NoRequest
    /\ ctlFound = 0
    /\ ctlJob = 0
    /\ ctlIter = 0
    /\ ctlHas = FALSE

StatusNext == \E pid \in Pids, job \in 1..MaxJobs : ControlSendStatus(pid, job)

\* control_send_job_status called once
StatusSpec == StatusInit /\ [][StatusNext]_vars

(* ------------------------- NihDBusObject dispatch --------------------- *)

\* what is left alone by the object and its test
objRest == <<oomLeft, stubVars, parseVars, nameVars, genVars, heapVars,
             loopVars, controlVars>>

\* serials the bus gives to the method call
MaxSerial == 2

\* mutant: an error name of the library's own
DBUS_ERROR_UNKNOWN_METHOD_Nih == "com.netsplit.Nih.DBus.UnknownMethod"

\* DBUS_ERROR_UNKNOWN_METHOD
DBUS_ERROR_UNKNOWN_METHOD == "org.freedesktop.DBus.Error.UnknownMethod"

\* mutant: every handler of the test sets every flag
HandlerFlags_Shared(h) ==
    {"foo_called", "bar_called", "colour_get_called", "colour_set_called",
     "size_get_called", "poke_set_called"}

\* the handlers, getters and setters of the test: the flag each one sets
HandlerFlags(h) ==
    CASE h = "foo_handler" -> {"foo_called"}
      [] h = "bar_handler" -> {"bar_called"}
      [] h = "colour_get"  -> {"colour_get_called"}
      [] h = "colour_set"  -> {"colour_set_called"}
      [] h = "size_get"    -> {"size_get_called"}
      [] h = "poke_set"    -> {"poke_set_called"}

\* a member of an interface: a method with its handler, or a property with
\* its getter and its setter, "" standing for NULL
Member(name, handler, getter, setter) ==
    [name |-> name, handler |-> handler, getter |-> getter, setter |-> setter]

interface_a_methods ==
    <<Member("Foo", "foo_handler", "", ""), Member("Bar", "bar_handler", "", "")>>

interface_b_methods ==
    <<Member("Bar", "foo_handler", "", ""), Member("Baz", "foo_handler", "", "")>>

interface_b_props ==
    <<Member("Colour", "", "colour_get", "colour_set"),
      Member("Size", "", "size_get", ""),
      Member("Poke", "", "", "poke_set")>>

interface_c_props ==
    <<Member("Colour", "", "size_get", "poke_set"),
      Member("Height", "", "size_get", "")>>

interface_a == [name |-> "Nih.TestA", methods |-> interface_a_methods,
                properties |-> <<>>]

interface_b == [name |-> "Nih.TestB", methods |-> interface_b_methods,
                properties |-> interface_b_props]

interface_c == [name |-> "Nih.TestC", methods |-> <<>>,
                properties |-> interface_c_props]

no_interfaces == <<>>

one_interface == <<interface_a>>

prop_interface == <<interface_b>>

all_interfaces == <<interface_a, interface_b, interface_c>>

\* the interface and member names the test's calls are made with
CallInterfaces == {"", "Nih.TestA", "Nih.TestB", "Nih.TestC", "Nih.FooBar"}

CallMethods == {"Foo", "Bar", "Baz", "Wibble"}

CallProperties == {"Colour", "Size", "Poke", "Height", "Width"}

\* the methods, or the properties, of an interface
MembersOf(interface, kind) ==
    IF kind = "method" THEN interface.methods ELSE interface.properties

\* what is called for a member: the handler of a method, the getter or the
\* setter of a property
Accessor(member, kind) ==
    CASE kind = "method" -> member.handler
      [] kind = "get"    -> member.getter
      [] kind = "set"    -> member.setter

RECURSIVE FindMember(_, _, _)
\* the first member of the list with the name, <<>> when there is none
FindMember(members, name, i) ==
    IF i > Len(members) THEN <<>>
    ELSE IF members[i].name = name THEN <<members[i]>>
    ELSE FindMember(members, name, i + 1)

RECURSIVE Lookup(_, _, _)
\* the object looks the member up: the interfaces in order, from the i-th
\* on, those of another name than the one given passed over
Lookup(interfaces, call, i) ==
    IF i > Len(interfaces) THEN <<>>
    ELSE IF call.interface # "" /\ interfaces[i].name # call.interface
            THEN Lookup(interfaces, call, i + 1)
    ELSE IF FindMember(MembersOf(interfaces[i], call.kind), call.member, 1) # <<>>
            THEN FindMember(MembersOf(interfaces[i], call.kind), call.member, 1)
    ELSE Lookup(interfaces, call, i + 1)

\* a message the client receives in reply to its call
Reply(type, name, reply_serial) ==
    [type |-> type, name |-> name, reply_serial |-> reply_serial]

\* object = nih_dbus_object_new (NULL, server_conn, "/com/netsplit/Nih",
\*                               interfaces, &server_conn)
nih_dbus_object_new(interfaces) ==
    /\ dispPc = "start"
    /\ objInterfaces' = interfaces
    /\ dispPc' = "object"
    /\ UNCHANGED <<dbusCall, calledFlags, clientReplies, objRest>>

\* message = dbus_message_new_method_call (...);
\* dbus_connection_send (client_conn, message, &serial)
SendCall(kind, interface, member, serial) ==
    /\ dispPc = "object"
    /\ dbusCall' = [kind |-> kind, interface |-> interface,
                    member |-> member, serial |-> serial]
    /\ dispPc' = "sent"
    /\ UNCHANGED <<objInterfaces, calledFlags, clientReplies, objRest>>

\* TEST_DBUS_DISPATCH (server_conn): the object is handed the call.  With
\* the member found and something to call for it, it is called, and a Get
\* is answered with the value; with the member not found the call is not
\* handled and the client gets the unknown-method error; what a member
\* without getter, or setter, gives is not shown by the test
Dispatch ==
    /\ dispPc = "sent"
    /\ dispPc' = "done"
    /\ LET found == Lookup(objInterfaces, dbusCall, 1)
       IN  IF found = <<>>
              THEN /\ calledFlags' = calledFlags
                   /\ clientReplies' =
                         Append(clientReplies,
                                Reply("error", DBUS_ERROR_UNKNOWN_METHOD,
                                      dbusCall.serial))
              ELSE IF Accessor(found[1], dbusCall.kind) = ""
              THEN /\ calledFlags' = calledFlags
                   /\ \E name \in {DBUS_ERROR_UNKNOWN_METHOD,
                                   "org.freedesktop.DBus.Error.AccessDenied"} :
                         clientReplies' =
                            Append(clientReplies,
                                   Reply("error", name, dbusCall.serial))
              ELSE /\ calledFlags' =
                         calledFlags
                         \cup HandlerFlags(Accessor(found[1], dbusCall.kind))
                   /\ clientReplies' =
                         IF dbusCall.kind = "get"
                            THEN Append(clientReplies,
                                        Reply("method_return", "",
                                              dbusCall.serial))
                            ELSE clientReplies
    /\ UNCHANGED <<objInterfaces, dbusCall, objRest>>

DispatchNext ==
    \/ \E interfaces \in {no_interfaces, one_interface, prop_interface,
                          all_interfaces} : nih_dbus_object_new(interfaces)
    \/ \E interface \in CallInterfaces, serial \in 1..MaxSerial :
          \/ \E member \in CallMethods :
                SendCall("method", interface, member, serial)
          \/ \E kind \in {"get", "set"}, member \in CallProperties :
                SendCall(kind, interface, member, serial)
    \/ Dispatch

\* an object registered, one call sent to it and dispatched
DispatchSpec == Init /\ [][DispatchNext]_vars

(* ------------------------------ claims -------------------------------- *)

\* same content, whatever the owner of the storage
SameValue(a, b) == a.k = b.k /\ a.s = b.s /\ a.n = b.n

\* what follows the interface and property names in the message read by the
\* server set stub is exactly one variant holding a value of the property's type
SetWellFormed ==
    /\ Len(inArgs) = 3
    /\ inArgs[3].type = "v"
    /\ ArgType(inArgs[3].items, 1) = ptype

\* the reply read by the sync getter is exactly one variant holding a value of
\* the property's type
ReplyWellFormed ==
    /\ replied
    /\ Len(inArgs) = 1
    /\ inArgs[1].type = "v"
    /\ ArgType(inArgs[1].items, 1) = ptype

\* C1 as stated: the set stub calls the setter only for a well-formed message,
\* and for every other message it returns failure with the D-Bus
\* invalid-arguments error raised and the setter not called.
C1_Original ==
    stub = "object_set" =>
        /\ handlerCalls > 0 => SetWellFormed
        /\ (pc = "done" /\ ~SetWellFormed) =>
              /\ ret = -1
              /\ handlerCalls = 0
              /\ err = InvalidArgsDBus

\* C1 amended: the set stub calls the setter only for a well-formed message;
\* for every other message it returns failure without calling the setter, and
\* the error raised is D-Bus invalid-arguments, except that NoMemory is raised
\* when a well-typed variant is followed by an extra argument and the
\* allocation made while demarshalling the value fails.
C1_Amended ==
    stub = "object_set" =>
        /\ handlerCalls > 0 => SetWellFormed
        /\ (pc = "done" /\ ~SetWellFormed) =>
              /\ ret = -1
              /\ handlerCalls = 0
              /\ \/ err = InvalidArgsDBus
                 \/ /\ err = NoMemoryError
                    /\ oomLeft < MaxOom
                    /\ NeedsAlloc(ptype)
                    /\ Len(inArgs) > 3
                    /\ inArgs[3].type = "v"
                    /\ ArgType(inArgs[3].items, 1) = ptype

\* a variant of d was given for an s property and was refused
C1_Witness ==
    /\ stub = "object_set"
    /\ pc = "done"
    /\ ptype = "s"
    /\ Len(inArgs) = 3
    /\ inArgs[3].type = "v"
    /\ inArgs[3].sig = "d"
    /\ ret = -1
    /\ err = InvalidArgsDBus
    /\ handlerCalls = 0

\* C2: in the stubs that open a variant for writing (server get, client sync
\* set) at most one container is open at a time, never more closes than opens
\* are made, and when the stub has returned every opened container has had
\* exactly one close call, on the success, append-failure and close-failure
\* paths alike.
C2_Balanced ==
    stub \in {"object_get", "proxy_set"} =>
        /\ closes <= opens
        /\ opens <= 1
        /\ varOpen <=> (opens = closes + 1)
        /\ pc = "done" => (opens = closes /\ ~varOpen)

\* the server get stub failed to append the value and returned
C2_Witness ==
    /\ stub = "object_get"
    /\ pc = "done"
    /\ ret = -1
    /\ opens = 1
    /\ closes = 1
    /\ varItems = <<>>

\* C3: the sync getter, given a reply of exactly one variant of the property's
\* type and no allocation failure, returns success with the reply's value in
\* the caller's slot, owned by the caller's parent, for every type and value.
C3_Claim ==
    (stub = "proxy_get" /\ pc = "done" /\ ReplyWellFormed /\ oomLeft = MaxOom) =>
        /\ ret = 0
        /\ slot = FromWire(ptype, inArgs[1].items[1], "parent")

\* C4: the sync getter returns failure with the local invalid-arguments error
\* and the caller's slot unwritten whenever the reply is not exactly one
\* variant holding a value of the property's type.
C4_MalformedReply ==
    (stub = "proxy_get" /\ pc = "done" /\ replied /\ ~ReplyWellFormed) =>
        /\ ret = -1
        /\ err = InvalidArgsLocal
        /\ slot = Unset

\* the reply held one variant of another type, found in the first pass
C4_Witness ==
    /\ stub = "proxy_get"
    /\ pc = "done"
    /\ replied
    /\ Len(inArgs) = 1
    /\ inArgs[1].type = "v"
    /\ inArgs[1].sig # ptype
    /\ Len(passLog) = 1
    /\ ret = -1
    /\ err = InvalidArgsLocal

\* C5: in the sync getter a pass of the loop body is run again only after an
\* allocation failure in the pass before it, a retry starts at the same
\* position of the reply, and the loop is left as soon as a pass completes
\* without allocation failure.
C5_Claim ==
    stub = "proxy_get" =>
        /\ \A i \in 2..Len(passLog) :
              /\ passLog[i - 1].outcome = "oom"
              /\ passLog[i].start = passLog[i - 1].start
        /\ (pc = "pg_loop" /\ passLog # <<>>) =>
              passLog[Len(passLog)].outcome = "oom"

\* C6: when the blocking send of a sync stub yields an error, the stub returns
\* failure, raising NoMemory exactly when the remote error's name is the D-Bus
\* NoMemory name and otherwise a D-Bus error with the remote name and message.
C6_RemoteError ==
    (stub \in {"proxy_get", "proxy_set"} /\ pc = "done" /\ sent # <<>>
        /\ ~replied) =>
        /\ ret = -1
        /\ (err = NoMemoryError) <=> (remoteErr.name = NoMemoryName)
        /\ remoteErr.name # NoMemoryName =>
              err = DBusError(remoteErr.name, remoteErr.message)

\* the sync setter was answered with the D-Bus NoMemory error
C6_Witness ==
    /\ stub = "proxy_set"
    /\ pc = "done"
    /\ sent # <<>>
    /\ ~replied
    /\ remoteErr.name = NoMemoryName
    /\ err = NoMemoryError
    /\ ret = -1

\* C7: the sync setter sends at most one call, a Set whose arguments are the
\* interface name, the property name and a variant of the property's signature
\* holding the given value; it returns success exactly when a reply without
\* arguments arrived, and a reply with an argument makes it fail with the
\* local invalid-arguments error.
C7_SetCall ==
    stub = "proxy_set" =>
        /\ Len(sent) <= 1
        /\ sent # <<>> =>
              sent[1] = [member |-> "Set",
                         args |-> << WStr(InterfaceName), WStr(PropertyName),
                                     WVariant(ptype, <<ToWire(ptype, value)>>) >>]
        /\ pc = "done" => ((ret = 0) <=> (replied /\ inArgs = <<>>))
        /\ (pc = "done" /\ replied /\ inArgs # <<>>) =>
              (ret = -1 /\ err = InvalidArgsLocal)

\* the sync setter sent its call, got an empty reply and returned success
C7_Witness ==
    /\ stub = "proxy_set"
    /\ pc = "done"
    /\ Len(sent) = 1
    /\ replied
    /\ inArgs = <<>>
    /\ ret = 0

\* C8: when the user's handler called from a server stub fails, the stub has
\* returned failure with nothing done after the call, and the raised error is
\* the one the handler raised.
C8_HandlerError ==
    (stub \in {"object_get", "object_set"} /\ handlerCalls > 0
        /\ handlerRet < 0) =>
        /\ pc = "done"
        /\ ret = -1
        /\ handlerErr \in HandlerErrors
        /\ err = handlerErr
        /\ opens = 0
        /\ outArgs = <<>>

\* the setter raised a D-Bus error of its own and the set stub returned it
C8_Witness ==
    /\ stub = "object_set"
    /\ pc = "done"
    /\ handlerCalls = 1
    /\ handlerRet < 0
    /\ ret = -1
    /\ err = DBusError("com.netsplit.Nih.MyProperty.Fail",
                       "Bad value for my_property")

\* C9: the server get stub opens the variant and appends only after one
\* successful getter call; when it returns success the reply iterator holds
\* exactly one variant, of the property's signature, holding the getter's
\* value; when the getter fails it returns failure with no container opened
\* and nothing appended.
C9_GetStub ==
    stub = "object_get" =>
        /\ (opens > 0 \/ outArgs # <<>> \/ varItems # <<>>) =>
              (handlerCalls = 1 /\ handlerRet = 0)
        /\ Len(outArgs) <= 1
        /\ (pc = "done" /\ ret = 0) =>
              outArgs = << WVariant(ptype, <<ToWire(ptype, value)>>) >>
        /\ handlerRet < 0 =>
              (ret = -1 /\ opens = 0 /\ outArgs = <<>> /\ varItems = <<>>)

\* the getter returned an integer and the stub appended the variant
C9_Witness ==
    /\ stub = "object_get"
    /\ pc = "done"
    /\ ret = 0
    /\ ptype = "i"
    /\ handlerCalls = 1
    /\ Len(outArgs) = 1

C11_TypeBeforeAlloc ==
    [][ /\ (pc = "os_demarshal" /\ ArgType(varArgs, varPos) # ptype)
            => /\ err' = InvalidArgsDBus
               /\ ret' = -1
               /\ oomLeft' = oomLeft
               /\ value' = value
        /\ (pc = "pg_loop" /\ ArgType(varArgs, varPos) # ptype)
            => /\ err' = InvalidArgsLocal
               /\ ret' = -1
               /\ oomLeft' = oomLeft
               /\ value' = value
               /\ slot' = slot ]_vars

\* the server set stub has refused a variant of the wrong type for a string
\* property while an allocation failure was still pending
C11_Witness ==
    /\ stub = "object_set"
    /\ ptype = "s"
    /\ pc = "done"
    /\ ArgType(inArgs, iterPos) = "v"
    /\ ArgType(varArgs, varPos) \notin {"s", "INVALID"}
    /\ err = InvalidArgsDBus
    /\ ret = -1
    /\ oomLeft = MaxOom
    /\ value = Unset
    /\ handlerCalls = 0

\* the member-name pattern [A-Za-z_][A-Za-z0-9_]*
MatchesMemberPattern(str) ==
    /\ Len(str) >= 1
    /\ str[1] \in (65..90) \cup (97..122) \cup {95}
    /\ \A i \in 2..Len(str) : str[i] \in (65..90) \cup (97..122) \cup {95} \cup (48..57)

\* the symbol the end tag gives a property: the one an annotation set, or else
\* the one derived from its name
EndTagSymbol(property) ==
    IF property.symbol = <<>> THEN symbol_from_name(property.name)
    ELSE property.symbol[1]

\* C12: after any sequence of start tags, annotations and end tags no two
\* properties of the interface's list have the same symbol, and an end tag
\* for a property whose symbol is already the symbol of a listed property
\* fails with the duplicate-symbol error and adds nothing to the list
C12_UniqueSymbols ==
    [][ /\ \A i, j \in 1..Len(properties') :
              i # j => properties'[i].symbol # properties'[j].symbol
        /\ ( /\ property_end_tag
             /\ oomLeft' = oomLeft
             /\ \E i \in 1..Len(properties) :
                   properties[i].symbol = <<EndTagSymbol(stack[1].data[1])>> )
           => /\ tagRet' < 0
              /\ tagErr' = GenericError("PROPERTY_DUPLICATE_SYMBOL")
              /\ properties' = properties ]_vars

\* an end tag was refused as a duplicate while two properties were listed
C12_Witness ==
    /\ tagRet < 0
    /\ tagErr = GenericError("PROPERTY_DUPLICATE_SYMBOL")
    /\ Len(properties) = 2
    /\ TopType(stack) = "PARSE_INTERFACE"

\* the signatures among TagTypes that are one complete type
SingleTypes == {<<"s">>, <<"a", "s">>, <<"(", "i", "s", ")">>}

\* C13: with an interface entry on top of the parse stack, property_start_tag
\* fails if and only if the name is missing or not a valid member name, the
\* type is missing or not exactly one complete type, the access is missing or
\* not one of read, write, readwrite, or an allocation fails; otherwise it
\* returns 0 and pushes exactly one property entry holding the given name,
\* type and access
C13_StartTag ==
    [][ \A attr \in TagAttrs :
          (TopType(stack) = "PARSE_INTERFACE" /\ property_start_tag(attr))
          => LET bad == \/ attr.name = <<>>
                        \/ ~MatchesMemberPattern(attr.name[1])
                        \/ Len(attr.name[1]) > 255
                        \/ attr.type = <<>>
                        \/ attr.type[1] \notin SingleTypes
                        \/ attr.access = <<>>
                        \/ attr.access[1] \notin {"read", "write", "readwrite"}
                 oom == oomLeft' < oomLeft
             IN  /\ (tagRet' < 0) <=> (bad \/ oom)
                 /\ (tagRet' < 0) => tagErr' # NoError
                 /\ ~(tagRet' < 0)
                    => /\ tagRet' = 0
                       /\ tagErr' = NoError
                       /\ stack' = << [type |-> "PARSE_PROPERTY",
                                       data |-> << [name |-> attr.name[1],
                                                    symbol |-> <<>>,
                                                    type |-> attr.type[1],
                                                    access |-> attr.access[1],
                                                    deprecated |-> FALSE] >>] >>
                                   \o stack ]_vars

\* a property of struct type, write-only, has been pushed on an interface
C13_Witness ==
    /\ tagRet = 0
    /\ TopType(stack) = "PARSE_PROPERTY"
    /\ TopType(Tail(stack)) = "PARSE_INTERFACE"
    /\ stack[1].data[1].type = <<"(", "i", "s", ")">>
    /\ stack[1].data[1].access = "write"
    /\ stack[1].data[1].name = <<97, 95, 98>>

\* C14: whenever property_start_tag returns an error the parse stack is as it
\* was before the call, its top entry included, and so is the interface's
\* property list
C14_StartTagFrame ==
    [][ (tagRet' < 0 /\ \E attr \in TagAttrs : property_start_tag(attr))
        => (stack' = stack /\ properties' = properties) ]_vars

\* the start tag of a well-formed property failed for want of memory, with
\* the interface still on top of the stack
C14_Witness ==
    /\ tagRet < 0
    /\ tagErr = NoMemoryError
    /\ TopType(stack) = "PARSE_INTERFACE"
    /\ oomLeft < MaxOom

\* what C15 says of a start tag in an unexpected place: it warns, pushes one
\* ignored marker and nothing else, and creates no property
IgnoredPushed ==
    /\ warned'
    /\ stack' = <<[type |-> "PARSE_IGNORED", data |-> <<>>]>> \o stack
    /\ properties' = properties

\* C15 as stated: property_start_tag called with an empty stack or a top
\* entry that is not an interface warns, pushes exactly one ignored marker and
\* returns success, whatever the attributes
C15_Original ==
    [][ ( /\ TopType(stack) # "PARSE_INTERFACE"
          /\ \E attr \in TagAttrs : property_start_tag(attr) )
        => (IgnoredPushed /\ tagRet' = 0) ]_vars

\* C15 amended: property_start_tag called with an empty stack or a top entry
\* that is not an interface creates no property and warns, whatever the
\* attributes; it pushes exactly one ignored marker and returns success,
\* unless the allocation of the marker fails: then it returns failure with
\* the out-of-memory error raised and leaves the stack as it was
C15_Amended ==
    [][ ( /\ TopType(stack) # "PARSE_INTERFACE"
          /\ \E attr \in TagAttrs : property_start_tag(attr) )
          => /\ warned'
             /\ properties' = properties
             /\ IF oomLeft' = oomLeft
                   THEN IgnoredPushed /\ tagRet' = 0 /\ tagErr' = NoError
                   ELSE /\ stack' = stack
                        /\ tagRet' < 0
                        /\ tagErr' = NoMemoryError ]_vars

\* a start tag met a node on top of the stack and was ignored
C15_Witness ==
    /\ tagRet = 0
    /\ warned
    /\ Len(stack) = 2
    /\ stack[1].type = "PARSE_IGNORED"
    /\ stack[2].type = "PARSE_NODE"

C17_NameValid ==
    nameRet # <<>>
    => (nameRet[1] <=> (MatchesMemberPattern(nameArg) /\ Len(nameArg) \in 1..255))

\* a name of 255 characters has been accepted
C17_Witness ==
    /\ nameRet = <<TRUE>>
    /\ Len(nameArg) = 255

\* the elements of a list
Elements(list) == {list[i] : i \in 1..Len(list)}

\* the functions the client-side generators emit
ClientFuncs == {"my_property_get_sync", "my_property_set_sync"}

\* C18: a generated client-side stub (sync get, sync set) carries the
\* deprecated attribute if and only if the property is marked deprecated; the
\* server-side stubs and the prototypes of the user's handlers never carry it
C18_Deprecated ==
    /\ \A f \in Elements(prototypes) \cup Elements(func) :
          IF f.name \in ClientFuncs
             THEN ("deprecated" \in Elements(f.attribs)) <=> genProp.deprecated
             ELSE "deprecated" \notin Elements(f.attribs)
    /\ \A h \in Elements(handlers) \cup Elements(handler_func) :
          "deprecated" \notin Elements(h.attribs)

\* for a deprecated property a sync getter marked deprecated and a server
\* set stub not marked so have been emitted, with the handler's prototype
C18_Witness ==
    /\ genProp.deprecated
    /\ TypeFunc("my_property_get_sync", <<"warn_unused_result", "deprecated">>)
          \in Elements(prototypes)
    /\ TypeFunc("MyProperty_set", <<>>) \in Elements(prototypes)
    /\ TypeFunc("my_property_set", <<"warn_unused_result">>) \in Elements(handlers)

\* C19: a generator that returns NULL because an allocation failed leaves the
\* caller's prototypes and handlers lists as they were before the call: of
\* all the steps of a call only the one that returns the code changes a list
C19_ListsOnFailure ==
    [][ (prototypes' # prototypes \/ handlers' # handlers)
        => (genRet' = "code" /\ genPc = "append" /\ genPc' = "idle") ]_vars

\* a server-side generator has returned NULL after making both its func and
\* its handler_func, a function emitted before still being on the lists
C19_Witness ==
    /\ genRet = "NULL"
    /\ genFn = "object_set"
    /\ genPc = "idle"
    /\ oomLeft < MaxOom
    /\ Len(prototypes) = 1
    /\ Len(handlers) = 1

\* the blocks allocated with block b as parent
ChildrenOf(b) == {c \in 1..Len(heap) : heap[c].parent = b}

\* C20: nih_free on a block releases that block and every block allocated
\* with it as parent, transitively, each exactly once, and calls the
\* destructor of every released block that has one exactly once: no call
\* dies, and a block that is no longer held has gone back to the allocator
\* once, its destructor has run once if it has one, and the blocks allocated
\* with it as parent are no longer held either
C20_FreeTree ==
    /\ ~heapFault
    /\ \A b \in 1..Len(heap) :
          /\ heap[b].released <= 1
          /\ heap[b].destroyed <= 1
          /\ ~heap[b].live
             => /\ heap[b].released = 1
                /\ heap[b].destroyed = (IF heap[b].destructor # <<>> THEN 1 ELSE 0)
                /\ \A c \in ChildrenOf(b) : ~heap[c].live

\* C21: nih_free returns the value returned by the destructor of the block
\* passed to it, or 0 when that block has no destructor, whether or not the
\* block has children and whatever the children's destructors return
C21_FreeReturn ==
    [][\A ptr \in 1..Len(heap) :
          nih_free(ptr) /\ ~heapFault'
          => heapRet' = IF heap[ptr].destructor # <<>>
                           THEN heap[ptr].destructor[1] ELSE 0]_vars

\* C22: nih_main_loop returns the status value passed to the most recent
\* nih_main_loop_exit call made before the loop stopped
C22_LoopReturn == [][LoopLeave => loopRet' = lastExit]_vars

\* the loop has been told to exit with status 2 and has returned it
C22_Witness ==
    /\ loopPc = "out"
    /\ loopRet = <<2>>
    /\ lastExit = <<2>>
    /\ exit_status = 2

\* the polls an iteration made, in order
PollsOf(log) ==
    LET polls == SelectSeq(log, LAMBDA e :
                              e.ev \in {"io", "signal", "child", "timer"})
    IN  [i \in 1..Len(polls) |-> polls[i].ev]

\* the iteration polled the signals, the children and the timers, in this
\* order, after the I/O if there was any
AllPolled(log) ==
    PollsOf(log) \in {<<"io", "signal", "child", "timer">>,
                      <<"signal", "child", "timer">>}

\* the loop function f was called in the iteration
Called(log, f) == \E i \in 1..Len(log) : log[i].ev = "func" /\ log[i].arg = f

\* the loop function f was registered by the callback of the last loop
\* function the iteration called
AddedByLast(log, f) ==
    \E i \in 1..Len(log) :
       /\ log[i].ev = "add" /\ log[i].arg = f
       /\ \E j \in 1..(i - 1) : log[j].ev = "func"
       /\ \A j \in (i + 1)..Len(log) : log[j].ev # "func"

\* every loop function of the list was called in the iteration, those that
\* the last one called has just registered apart
AllCalled(log, list) ==
    \A k \in 1..Len(list) :
       Called(log, list[k].id) \/ AddedByLast(log, list[k].id)

\* nih_main_loop_exit was called while the iteration was being processed
ExitCalled(log) == \E i \in 1..Len(log) : log[i].ev = "exit"

\* C23: when nih_main_loop_exit is called while an iteration is being
\* processed, the rest of that iteration's processing still runs (the
\* remaining signal, child and timer polls and every remaining loop
\* function), and the loop returns at the end of that iteration without
\* starting another one
C23_ExitInIteration ==
    [][/\ (LoopLeave /\ ExitCalled(loopLog))
          => AllPolled(loopLog) /\ AllCalled(loopLog, loop_functions)
       /\ (loopPc = "while" /\ exit_loop) => loopPc' = "out"
       /\ (loopPc \notin {"while", "out"} /\ exit_loop) => loopPc' # "out"]_vars

\* the loop has returned after an iteration in which the I/O watcher told
\* it to exit and two loop functions were called after that
C23_Witness ==
    /\ loopPc = "while"
    /\ exit_loop
    /\ Len(loopLog) >= 7
    /\ loopLog[1].ev = "io"
    /\ loopLog[2].ev = "exit"
    /\ loopLog[Len(loopLog)].ev = "func"
    /\ Len(loop_functions) = 2

\* C24: in each main-loop iteration every registered loop function is called
\* exactly once with its own data pointer, in the order the functions were
\* registered, after that iteration's I/O, signal, child and timer
\* processing
C24_LoopFuncs ==
    (loopPc = "while" /\ loopLog # <<>>)
    => /\ AllPolled(loopLog)
       /\ AllCalled(loopLog, loop_functions)
       /\ \A i, j \in 1..Len(loopLog) :
             /\ (loopLog[i].ev = "func" /\ loopLog[j].ev = "func" /\ i < j)
                => loopLog[i].arg < loopLog[j].arg
             /\ (loopLog[i].ev = "func"
                 /\ loopLog[j].ev \in {"io", "signal", "child", "timer"})
                => j < i
       /\ \A i \in 1..Len(loopLog), k \in 1..Len(loop_functions) :
             (loopLog[i].ev = "func" /\ loopLog[i].arg = loop_functions[k].id)
             => loopLog[i].data = loop_functions[k].data

\* an iteration has ended in which two loop functions registered with
\* different data pointers were called
C24_Witness ==
    /\ loopPc = "while"
    /\ Len(loop_functions) = 2
    /\ loop_functions[1].data # loop_functions[2].data
    /\ Called(loopLog, loop_functions[1].id)
    /\ Called(loopLog, loop_functions[2].id)

\* the replies queued so far, oldest first
Replies(q) == SelectSeq(q, LAMBDA m : m.type \in ReplyTypes)

\* the step queues a reply
ReplyQueued == Len(Replies(queue')) = Len(Replies(queue)) + 1

\* the last reply queued
LastReply(q) == Replies(q)[Len(Replies(q))]

\* the reply C25 says a request to start gets, the job found being found
\* and the instance to start being job
StartVerdict(found, job) ==
    IF found = 0 THEN "UPSTART_JOB_UNKNOWN"
    ELSE IF \/ jobs[found].state = "JOB_DELETED"
            \/ jobs[found].instance_of # 0
            \/ jobs[found].replacement_for # 0 THEN "UPSTART_JOB_INVALID"
    ELSE IF jobs[job].goal = "JOB_START" THEN "UPSTART_JOB_UNCHANGED"
    ELSE "UPSTART_JOB"

\* no job matches the name, or the id when no name is given
NoMatch(req) ==
    ~\E j \in 1..Len(jobs) :
        IF req.name # "" THEN jobs[j].name = req.name ELSE jobs[j].id = req.id

\* C25: control_job_start sends the requester exactly one reply:
\* UPSTART_JOB_UNKNOWN if no job matches the name (or the id when no name is
\* given); UPSTART_JOB_INVALID if the job found is deleted, is an instance,
\* or is a replacement; UPSTART_JOB_UNCHANGED if the instance to start
\* already has goal start; otherwise UPSTART_JOB, and only in that last case
\* is the job's goal changed to start
C25_JobStart ==
    [][ctlReq'.kind = "start"
       => /\ ReplyQueued
             => /\ LastReply(queue').pid = ctlReq.pid
                /\ LastReply(queue').type = StartVerdict(ctlFound, ctlJob)'
                /\ (ctlFound' = 0) = NoMatch(ctlReq)
          /\ ctlPc' = "done"
             => /\ Len(Replies(queue')) = 1
                /\ LastReply(queue').type = "UPSTART_JOB"
                   => jobs'[ctlJob'].goal = "JOB_START"
          /\ \A j \in 1..Len(jobs) :
                jobs'[j].goal # jobs[j].goal
                => /\ Replies(queue) # <<>>
                   /\ LastReply(queue).type = "UPSTART_JOB"
                   /\ LastReply(queue).id = j
                   /\ jobs'[j].goal = "JOB_START"]_vars

\* a request to start an instance master has been answered UPSTART_JOB for
\* a new instance, whose goal is now start
C25_Witness ==
    /\ ctlReq.kind = "start"
    /\ ctlPc = "done"
    /\ ctlFound # 0
    /\ ctlJob # ctlFound
    /\ jobs[ctlFound].instance
    /\ LastReply(queue).type = "UPSTART_JOB"
    /\ jobs[ctlJob].goal = "JOB_START"

\* an instance master: the branch of control_job_stop that C26 leaves out
Master(job) == job.instance /\ job.instance_of = 0

\* the reply C26 says a request to stop the job found gets
StopVerdict(found) ==
    IF found = 0 THEN "UPSTART_JOB_UNKNOWN"
    ELSE IF \/ jobs[found].state = "JOB_DELETED"
            \/ jobs[found].replacement_for # 0 THEN "UPSTART_JOB_INVALID"
    ELSE IF jobs[found].goal = "JOB_STOP" THEN "UPSTART_JOB_UNCHANGED"
    ELSE "UPSTART_JOB"

\* C26: control_job_stop on a job that is not an instance master sends the
\* requester exactly one reply: UPSTART_JOB_UNKNOWN if no job matches,
\* UPSTART_JOB_INVALID if the job is deleted or is a replacement,
\* UPSTART_JOB_UNCHANGED if its goal is already stop, otherwise UPSTART_JOB,
\* and only in that last case is the job's goal changed to stop; an
\* instance of a job is accepted
C26_JobStop ==
    [][(ctlReq'.kind = "stop" /\ (ctlFound' = 0 \/ ~Master(jobs[ctlFound'])))
       => /\ ReplyQueued
             => /\ LastReply(queue').pid = ctlReq.pid
                /\ LastReply(queue').type = StopVerdict(ctlFound)'
                /\ (ctlFound' = 0) = NoMatch(ctlReq)
          /\ ctlPc' = "done"
             => /\ Len(Replies(queue')) = 1
                /\ LastReply(queue').type = "UPSTART_JOB"
                   => jobs'[ctlFound'].goal = "JOB_STOP"
          /\ \A j \in 1..Len(jobs) :
                jobs'[j].goal # jobs[j].goal
                => /\ Replies(queue) # <<>>
                   /\ LastReply(queue).type = "UPSTART_JOB"
                   /\ LastReply(queue).id = j
                   /\ jobs'[j].goal = "JOB_STOP"]_vars

\* a request to stop an instance of a job has been answered UPSTART_JOB and
\* the goal of the instance is now stop
C26_Witness ==
    /\ ctlReq.kind = "stop"
    /\ ctlPc = "done"
    /\ ctlFound # 0
    /\ jobs[ctlFound].instance_of # 0
    /\ LastReply(queue).type = "UPSTART_JOB"
    /\ jobs[ctlFound].goal = "JOB_STOP"

\* the messages of control_send_job_status
StatusTypes == {"UPSTART_JOB_STATUS", "UPSTART_JOB_PROCESS",
                "UPSTART_JOB_STATUS_END"}

\* C27: whenever control_job_start or control_job_stop changes a job's goal,
\* the requester has already been subscribed to that job and the UPSTART_JOB
\* reply has already been queued before the goal change is initiated, so
\* every status notification caused by the goal change is queued to the
\* requester after its UPSTART_JOB reply
C27_ReplyFirst ==
    [][\A j \in 1..Len(jobs) :
          jobs'[j].goal # jobs[j].goal
          => /\ <<ctlReq.pid, j>> \in subs
             /\ \E r \in 1..Len(queue) :
                   /\ queue[r] = JobReply(ctlReq.pid, "UPSTART_JOB",
                                          jobs[j].id, jobs[j].name)
                   /\ \A i \in 1..Len(queue') :
                         (/\ queue'[i].pid = ctlReq.pid
                          /\ queue'[i].type = "UPSTART_JOB_STATUS"
                          /\ queue'[i].id = jobs[j].id)
                         => r < i]_vars

\* the requester has its UPSTART_JOB reply and, after it, the status of the
\* job with its new goal
C27_Witness ==
    /\ ctlPc = "done"
    /\ Len(queue) >= 3
    /\ queue[1] = JobReply(ctlReq.pid, "UPSTART_JOB", jobs[ctlJob].id,
                           jobs[ctlJob].name)
    /\ queue[2].pid = ctlReq.pid
    /\ queue[2].type = "UPSTART_JOB_STATUS"
    /\ queue[2].id = jobs[ctlJob].id
    /\ queue[2].goal = jobs[ctlJob].goal

\* C28: control_send_job_status queues to the destination process, in this
\* order: one UPSTART_JOB_STATUS message, then one UPSTART_JOB_PROCESS
\* message for each process slot of the job that has a pid greater than zero
\* (in increasing slot order, and for no other slot), then one
\* UPSTART_JOB_STATUS_END message carrying the same id, name, goal and state
\* as the opening message
C28_JobStatus ==
    (ctlReq.kind = "status" /\ ctlPc = "done")
    => LET job  == jobs[ctlReq.id]
           last == Len(queue)
       IN  /\ last >= 2
           /\ \A i \in 1..last : queue[i].pid = ctlReq.pid
           /\ queue[1].type = "UPSTART_JOB_STATUS"
           /\ <<queue[1].id, queue[1].name, queue[1].goal, queue[1].state>>
              = <<job.id, job.name, job.goal, job.state>>
           /\ queue[last].type = "UPSTART_JOB_STATUS_END"
           /\ <<queue[last].id, queue[last].name, queue[last].goal,
                queue[last].state>>
              = <<queue[1].id, queue[1].name, queue[1].goal, queue[1].state>>
           /\ \A i \in 2..(last - 1) :
                 /\ queue[i].type = "UPSTART_JOB_PROCESS"
                 /\ queue[i].process \in 0..(PROCESS_LAST - 1)
                 /\ job.process[queue[i].process + 1] = <<queue[i].ppid>>
                 /\ queue[i].ppid > 0
                 /\ \A k \in 2..(i - 1) : queue[k].process < queue[i].process
           /\ \A n \in 0..(PROCESS_LAST - 1) :
                 (job.process[n + 1] # <<>> /\ job.process[n + 1][1] > 0)
                 => \E i \in 2..(last - 1) : queue[i].process = n

\* the status of a job has been sent whose first process has no pid and
\* whose second has one
C28_Witness ==
    /\ ctlReq.kind = "status"
    /\ ctlPc = "done"
    /\ jobs[ctlReq.id].process[1] = <<0>>
    /\ jobs[ctlReq.id].process[2] = <<7>>
    /\ Len(queue) >= 3
    /\ queue[2].process = 1

\* the i-th interface of the object defines the member the call names
Defines(i) ==
    \E k \in 1..Len(MembersOf(objInterfaces[i], dbusCall.kind)) :
       MembersOf(objInterfaces[i], dbusCall.kind)[k].name = dbusCall.member

\* the flag that a handler, getter or setter of the test sets
FlagOf(h) ==
    CASE h = "foo_handler" -> "foo_called"
      [] h = "bar_handler" -> "bar_called"
      [] h = "colour_get"  -> "colour_get_called"
      [] h = "colour_set"  -> "colour_set_called"
      [] h = "size_get"    -> "size_get_called"
      [] h = "poke_set"    -> "poke_set_called"
      [] OTHER             -> ""

Undefined ==
    ~\E i \in 1..Len(objInterfaces) :
        /\ dbusCall.interface \in {"", objInterfaces[i].name}
        /\ Defines(i)

C31_MessagesReleased ==
    (pc = "done" /\ stub \in {"proxy_get", "proxy_set"})
    => mcRefs = 0 /\ replyRefs = 0

\* C32: whenever property_end_tag returns an error, out of memory while
\* deriving the symbol or a duplicate symbol, the parse stack is as it was
\* before the call, the entry of the property on top, and the property list
\* of the interface is unchanged
C32_EndTagFrame ==
    [][property_end_tag /\ tagRet' < 0
       => /\ stack' = stack
          /\ TopType(stack') = "PARSE_PROPERTY"
          /\ properties' = properties]_vars

\* C33: with each block passed to nih_free at most once, no block goes back
\* to its allocator more than once and no released block is read or written:
\* no call dies on released memory and no block has been released twice
C33_NoDoubleFree ==
    /\ ~heapFault
    /\ \A b \in 1..Len(heap) : heap[b].released <= 1

====
